---------------------------- MODULE Spec2Model ----------------------------
(***************************************************************************)
(* Single-object tracking engine of CookLabel                              *)
(* (src/libs/video_auto_annotation.py): KalmanFilter, SingleObjectTracker, *)
(* YOLODetector.detect, AnnotationGenerator and VideoAutoAnnotator.        *)
(*                                                                         *)
(* Numbers.  The source computes in floating point; the model computes in  *)
(* fixed point:                                                            *)
(*   - coordinates and Kalman state entries: 1/100 pixel;                  *)
(*   - confidences: percent (0.9 is 90, the decay 0.05 is 5);              *)
(*   - IoU values: exact fractions <<intersection, union>>, compared by    *)
(*     FracGT without rounding;                                            *)
(*   - IoU thresholds: 1/1000 (0.3 is 300);                                *)
(*   - Kalman covariances: 1/1000 (1000.0 is 1000000), gains: 1/1000.      *)
(*                                                                         *)
(* Kalman covariance.  F, H, Q, R and the initial P of the source are made *)
(* of 4x4 blocks that are multiples of the identity, so P always has the   *)
(* form [[p00*I, p01*I], [p10*I, p11*I]] and K the form [kp*I ; kv*I]; the *)
(* model keeps the four block factors <<p00, p01, p10, p11>>.              *)
(***************************************************************************)
EXTENDS Integers, Sequences, FiniteSets, TLC

\* ------------------------------------------------------------------ bounds
\* number of calls made on one VideoAutoAnnotator in the exploration
MaxCalls == 5

\* ------------------------------------------------------- numeric encoding
\* pixels to coordinate units (1/100 pixel)
Px(n) == n * 100

Max2(a, b) == IF a >= b THEN a ELSE b

Min2(a, b) == IF a <= b THEN a ELSE b

\* n1/d1 > n2/d2 for n1, n2 >= 0 and d1, d2 > 0, exactly and without
\* forming the products n1*d2, n2*d1
RECURSIVE FracGT(_, _, _, _)
FracGT(n1, d1, n2, d2) ==
    LET q1 == n1 \div d1
        q2 == n2 \div d2
        r1 == n1 % d1
        r2 == n2 % d2
    IN  IF q1 # q2 THEN q1 > q2
        ELSE IF r1 = 0 THEN FALSE
        ELSE IF r2 = 0 THEN TRUE
        ELSE FracGT(d2, r2, d1, r1)

\* floor(k * v / 1000) without forming k * v
MulK(k, v) == (v \div 1000) * k + ((v % 1000) * k) \div 1000

\* n / d in 1/1000, scaling both down when n * 1000 would not fit
Ratio1000(n, d) ==
    LET f == IF n < 2000000 THEN 1
             ELSE IF n < 20000000 THEN 10
             ELSE IF n < 200000000 THEN 100
             ELSE 1000
    IN  ((n \div f) * 1000) \div (d \div f)

\* --------------------------------------------------------- data structures
DetectionBox(x1, y1, x2, y2, confidence, class_id, class_name) ==
    [x1 |-> x1, y1 |-> y1, x2 |-> x2, y2 |-> y2, confidence |-> confidence,
     class_id |-> class_id, class_name |-> class_name]

TrackingBox(track_id, bbox, confidence, class_id, class_name, frame_id) ==
    [track_id |-> track_id, x1 |-> bbox[1], y1 |-> bbox[2], x2 |-> bbox[3],
     y2 |-> bbox[4], confidence |-> confidence, class_id |-> class_id,
     class_name |-> class_name, frame_id |-> frame_id]

ManualBox(x1, y1, x2, y2, class_id, class_name) ==
    [x1 |-> x1, y1 |-> y1, x2 |-> x2, y2 |-> y2,
     class_id |-> class_id, class_name |-> class_name]

\* Python's None for target_track and for best_match
NoTrack == [state |-> "none"]

NoDet == [none |-> TRUE]

\* a falsy frame_name (None or "")
NoName == ""

\* ------------------------------------------------------------ KalmanFilter
Q_pos == 100

Q_vel == 1

R_obs == 10000

P_init == 1000000

KalmanFilter_new ==
    [x |-> <<0, 0, 0, 0, 0, 0, 0, 0>>,
     P |-> <<P_init, 0, 0, P_init>>,
     is_initialized |-> FALSE]

\* (x1, y1, x2, y2) of a state vector
StateBBox(x) ==
    <<x[1] - x[3] \div 2, x[2] - x[4] \div 2,
      x[1] + x[3] \div 2, x[2] + x[4] \div 2>>

\* (center_x, center_y, width, height) of a bbox
BBoxObs(bbox) ==
    <<(bbox[1] + bbox[3]) \div 2, (bbox[2] + bbox[4]) \div 2,
      bbox[3] - bbox[1], bbox[4] - bbox[2]>>

KalmanFilter_initialize(kf, bbox) ==
    LET z == BBoxObs(bbox)
    IN  [kf EXCEPT !.x = <<z[1], z[2], z[3], z[4], 0, 0, 0, 0>>,
                   !.is_initialized = TRUE]

\* the filter after predict(); the returned bbox is StateBBox of its x
KalmanFilter_predict_NoAdvance(kf) ==
    IF ~kf.is_initialized THEN kf
    ELSE LET P == kf.P
         IN  [kf EXCEPT
                !.P = <<P[1] + P[3] + P[2] + P[4] + Q_pos, P[2] + P[4],
                        P[3] + P[4], P[4] + Q_vel>>]

KalmanFilter_predict(kf) ==
    IF ~kf.is_initialized THEN kf
    ELSE LET x == kf.x
             P == kf.P
         IN  [kf EXCEPT
                !.x = <<x[1] + x[5], x[2] + x[6], x[3] + x[7], x[4] + x[8],
                        x[5], x[6], x[7], x[8]>>,
                !.P = <<P[1] + P[3] + P[2] + P[4] + Q_pos, P[2] + P[4],
                        P[3] + P[4], P[4] + Q_vel>>]

KalmanFilter_update(kf, bbox) ==
    IF ~kf.is_initialized THEN KalmanFilter_initialize(kf, bbox)
    ELSE LET x  == kf.x
             P  == kf.P
             S  == P[1] + R_obs
             \* x + K y and (I - K H) P for the innovation y and the gain
             \* K = [kp*I ; kv*I]
             Corrected(y, kp, kv) ==
               [kf EXCEPT
                  !.x = <<x[1] + MulK(kp, y[1]), x[2] + MulK(kp, y[2]),
                          x[3] + MulK(kp, y[3]), x[4] + MulK(kp, y[4]),
                          x[5] + MulK(kv, y[1]), x[6] + MulK(kv, y[2]),
                          x[7] + MulK(kv, y[3]), x[8] + MulK(kv, y[4])>>,
                  !.P = <<P[1] - MulK(kp, P[1]), P[2] - MulK(kp, P[2]),
                          P[3] - MulK(kv, P[1]), P[4] - MulK(kv, P[2])>>]
             Innovation(z) == [i \in 1..4 |-> z[i] - x[i]]
         IN  Corrected(Innovation(BBoxObs(bbox)),
                       Ratio1000(P[1], S), Ratio1000(P[3], S))

KalmanFilter_get_current_bbox(kf) == StateBBox(kf.x)

\* ----------------------------------------------------- SingleObjectTracker
high_conf_threshold == 50

low_conf_threshold == 25

\* frames a lost target may still be re-acquired by the recovery tier
recovery_window_Wide == 10 + 2

recovery_window == 10

DetBBox(d) == <<d.x1, d.y1, d.x2, d.y2>>

\* the IoU of two boxes as the fraction <<intersection, union>>
calculate_iou(box1, box2) ==
    LET area1 == (box1[3] - box1[1]) * (box1[4] - box1[2])
        area2 == (box2[3] - box2[1]) * (box2[4] - box2[2])
        Ratio(intersection, union) ==
            IF union = 0 THEN <<0, 1>> ELSE <<intersection, union>>
        Overlap(x1, y1, x2, y2) ==
            IF x1 >= x2 \/ y1 >= y2 THEN <<0, 1>>
            ELSE Ratio((x2 - x1) * (y2 - y1),
                       area1 + area2 - (x2 - x1) * (y2 - y1))
    IN  Overlap(Max2(box1[1], box2[1]), Max2(box1[2], box2[2]),
                Min2(box1[3], box2[3]), Min2(box1[4], box2[4]))

\* iou > other, both fractions with a positive denominator
IoUGreater_OrEqual(iou, other) ==
    ~FracGT(other[1], other[2], iou[1], iou[2])

IoUGreater(iou, other) == FracGT(iou[1], iou[2], other[1], other[2])

\* the thresholds of the three tiers as fractions
HighThreshold(high_iou_threshold) == <<high_iou_threshold, 1000>>

DiffClassThreshold(high_iou_threshold) == <<high_iou_threshold * 12, 10000>>

LowThreshold(low_iou_threshold) == <<low_iou_threshold, 1000>>

RelaxedThreshold(low_iou_threshold) ==
    <<Max2(1000, low_iou_threshold * 7), 10000>>

NoMatch == [best_match |-> NoDet, best_iou |-> <<0, 1>>, match_source |-> "none"]

\* the high-confidence loop from detection i on
RECURSIVE MatchHighConf(_, _, _, _, _, _)
MatchHighConf(acc, dets, i, reference_box, class_id, high_iou_threshold) ==
    IF i > Len(dets) THEN acc
    ELSE LET Visit(detection, iou) ==
               IF detection.class_id = class_id
               THEN IF IoUGreater(iou, acc.best_iou)
                       /\ IoUGreater(iou, HighThreshold(high_iou_threshold))
                    THEN [best_match |-> detection, best_iou |-> iou,
                          match_source |-> "high_conf_same_class"]
                    ELSE acc
               ELSE IF acc.best_match = NoDet
                       /\ IoUGreater(iou, DiffClassThreshold(high_iou_threshold))
                    THEN [best_match |-> detection, best_iou |-> iou,
                          match_source |-> "high_conf_diff_class"]
                    ELSE acc
         IN  MatchHighConf(
                 Visit(dets[i], calculate_iou(reference_box, DetBBox(dets[i]))),
                 dets, i + 1, reference_box, class_id, high_iou_threshold)

\* a same-class-only loop (low-confidence tier and recovery tier) from
\* detection i on, with the tier's threshold and source label
RECURSIVE MatchSameClass(_, _, _, _, _, _, _)
MatchSameClass(acc, dets, i, reference_box, class_id, threshold, source) ==
    IF i > Len(dets) THEN acc
    ELSE LET Visit(detection, iou) ==
               IF detection.class_id = class_id
                  /\ IoUGreater(iou, acc.best_iou)
                  /\ IoUGreater(iou, threshold)
               THEN [best_match |-> detection, best_iou |-> iou,
                     match_source |-> source]
               ELSE acc
         IN  MatchSameClass(
                 Visit(dets[i], calculate_iou(reference_box, DetBBox(dets[i]))),
                 dets, i + 1, reference_box, class_id, threshold, source)

IsHighConf_Any(d) == d.confidence >= low_conf_threshold

IsHighConf(d) == d.confidence >= high_conf_threshold

IsLowConf_NoFloor(d) == d.confidence < high_conf_threshold

IsLowConf(d) ==
    low_conf_threshold <= d.confidence /\ d.confidence < high_conf_threshold

\* steps 2-5 of update(): the verdict of the three tiers
Associate(trk, detections, reference_box) ==
    LET track == trk.target_track
        high_conf_detections == SelectSeq(detections, IsHighConf)
        low_conf_detections == SelectSeq(detections, IsLowConf)
        \* third tier, entered with the verdict m of the first two
        Recovery(m) ==
            IF m.best_match = NoDet /\ track.state = "lost"
               /\ track.disappeared < recovery_window
            THEN MatchSameClass(m, high_conf_detections \o low_conf_detections,
                                1, reference_box, track.class_id,
                                RelaxedThreshold(trk.low_iou_threshold),
                                "recovery_match")
            ELSE m
        \* second tier, entered with the verdict m of the first
        LowConf(m) ==
            IF m.best_match = NoDet
            THEN MatchSameClass(m, low_conf_detections, 1, reference_box,
                                track.class_id,
                                LowThreshold(trk.low_iou_threshold),
                                "low_conf_same_class")
            ELSE m
    IN  Recovery(LowConf(
            MatchHighConf(NoMatch, high_conf_detections, 1, reference_box,
                          track.class_id, trk.high_iou_threshold)))

\* the decayed confidence of a predicted box
DecayedConfidence_FallbackRate(confidence, disappeared) ==
    Max2(10, confidence - 10 * disappeared)

DecayedConfidence_NoFloor(confidence, disappeared) ==
    confidence - 5 * disappeared

DecayedConfidence(confidence, disappeared) ==
    Max2(10, confidence - 5 * disappeared)

\* the tracker object: its fields as a record
Tracker(track, tracking, kf, max_dis, high_iou, low_iou) ==
    [target_track |-> track, is_tracking |-> tracking,
     kalman_filter |-> kf, max_disappeared |-> max_dis,
     high_iou_threshold |-> high_iou,
     low_iou_threshold |-> low_iou]

track_id == 0

SingleObjectTracker_initialize_target(trk, manual_box, frame_id) ==
    LET bbox == <<manual_box.x1, manual_box.y1, manual_box.x2, manual_box.y2>>
    IN  [trk EXCEPT
           !.target_track = [box |-> bbox,
                             class_id |-> manual_box.class_id,
                             class_name |-> manual_box.class_name,
                             disappeared |-> 0,
                             confidence |-> 100,
                             last_frame |-> frame_id,
                             state |-> "tracked"],
           !.kalman_filter = KalmanFilter_initialize(trk.kalman_filter, bbox),
           !.is_tracking = TRUE]

\* the counter of a track after one more frame without a match
MissedFrames_NotCounted(track) == track.disappeared

MissedFrames(track) == track.disappeared + 1

\* the stop test of a no-match frame
ExceedsMaxDisappeared_AtLimit(disappeared, max_dis) == disappeared >= max_dis

ExceedsMaxDisappeared(disappeared, max_dis) == disappeared > max_dis

\* step 6 of update() when a detection was accepted: correct the filter,
\* refresh the track, emit the corrected box
ApplyMatch_Unpredicted(trk, kf1, m, frame_id) ==
    LET track == trk.target_track
        matched_bbox == DetBBox(m.best_match)
        Corrected(kf2) ==
          [trk |-> [trk EXCEPT
                      !.kalman_filter = kf2,
                      !.target_track =
                         [track EXCEPT !.box = matched_bbox,
                                       !.confidence = m.best_match.confidence,
                                       !.disappeared = 0,
                                       !.last_frame = frame_id,
                                       !.state = "tracked"]],
           results |-> <<TrackingBox(track_id,
                                     KalmanFilter_get_current_bbox(kf2),
                                     m.best_match.confidence,
                                     track.class_id, track.class_name,
                                     frame_id)>>,
           log |-> {m.match_source}]
    IN  Corrected(KalmanFilter_update(trk.kalman_filter, matched_bbox))

ApplyMatch(trk, kf1, m, frame_id) ==
    LET track == trk.target_track
        matched_bbox == DetBBox(m.best_match)
        Corrected(kf2) ==
          [trk |-> [trk EXCEPT
                      !.kalman_filter = kf2,
                      !.target_track =
                         [track EXCEPT !.box = matched_bbox,
                                       !.confidence = m.best_match.confidence,
                                       !.disappeared = 0,
                                       !.last_frame = frame_id,
                                       !.state = "tracked"]],
           results |-> <<TrackingBox(track_id,
                                     KalmanFilter_get_current_bbox(kf2),
                                     m.best_match.confidence,
                                     track.class_id, track.class_name,
                                     frame_id)>>,
           log |-> {m.match_source}]
    IN  Corrected(KalmanFilter_update(kf1, matched_bbox))

\* the track is given up: nothing is emitted
StopTracking_KeepsFlag(trk, kf1) ==
    [trk |-> [trk EXCEPT !.kalman_filter = kf1,
                         !.target_track = NoTrack],
     results |-> <<>>,
     log |-> {"stop_tracking"}]

StopTracking(trk, kf1) ==
    [trk |-> [trk EXCEPT !.kalman_filter = kf1,
                         !.is_tracking = FALSE,
                         !.target_track = NoTrack],
     results |-> <<>>,
     log |-> {"stop_tracking"}]

\* the track lives on through a no-match frame: the predicted box is
\* emitted with a decayed confidence (the box of the last frame if the
\* filter could not predict: predicted_bbox was replaced by it, so the
\* branch for a predicted_bbox of None is never taken)
KeepPredicted_KeepsState(trk, kf1, disappeared, frame_id) ==
    LET track == [trk.target_track EXCEPT !.disappeared = disappeared]
    IN  [trk |-> [trk EXCEPT !.kalman_filter = kf1, !.target_track = track],
         results |->
           IF trk.kalman_filter.is_initialized
           THEN <<TrackingBox(track_id, StateBBox(kf1.x),
                      DecayedConfidence(track.confidence, disappeared),
                      track.class_id, track.class_name, frame_id)>>
           ELSE <<TrackingBox(track_id, track.box,
                      DecayedConfidence(track.confidence, disappeared),
                      track.class_id, track.class_name, frame_id)>>,
         log |-> {"occluded"}]

KeepPredicted(trk, kf1, disappeared, frame_id) ==
    LET track == [trk.target_track EXCEPT !.disappeared = disappeared,
                                          !.state = "lost"]
    IN  [trk |-> [trk EXCEPT !.kalman_filter = kf1, !.target_track = track],
         results |->
           IF trk.kalman_filter.is_initialized
           THEN <<TrackingBox(track_id, StateBBox(kf1.x),
                      DecayedConfidence(track.confidence, disappeared),
                      track.class_id, track.class_name, frame_id)>>
           ELSE <<TrackingBox(track_id, track.box,
                      DecayedConfidence(track.confidence, disappeared),
                      track.class_id, track.class_name, frame_id)>>,
         log |-> {"occluded"}]

\* update(): the tracker afterwards (trk), the returned list (results) and
\* what was printed about the verdict (log)
SingleObjectTracker_update(trk, detections, frame_id) ==
    IF ~trk.is_tracking \/ trk.target_track = NoTrack
    THEN [trk |-> trk, results |-> <<>>, log |-> {}]
    ELSE
    LET track == trk.target_track
        \* step 6, with the filter after predict() and the verdict m
        Conclude(kf1, m) ==
            IF m.best_match # NoDet
            THEN ApplyMatch(trk, kf1, m, frame_id)
            ELSE IF ExceedsMaxDisappeared(MissedFrames(track),
                                          trk.max_disappeared)
                 THEN StopTracking(trk, kf1)
                 ELSE KeepPredicted(trk, kf1, MissedFrames(track), frame_id)
        \* steps 2-5 around the predicted box, the last box if the filter
        \* could not predict
        Predicted(kf1) ==
            Conclude(kf1,
                     Associate(trk, detections,
                               IF trk.kalman_filter.is_initialized
                               THEN StateBBox(kf1.x) ELSE track.box))
    IN  Predicted(KalmanFilter_predict(trk.kalman_filter))

SingleObjectTracker_reset_KeepsFilter(trk) ==
    [trk EXCEPT !.target_track = NoTrack,
                !.is_tracking = FALSE]

SingleObjectTracker_reset(trk) ==
    [trk EXCEPT !.target_track = NoTrack,
                !.is_tracking = FALSE,
                !.kalman_filter = KalmanFilter_new]

\* ------------------------------------------------------------ YOLODetector
\* What the detector's model does on a frame: it yields raw boxes
\* (kind "boxes"), raises inside inference (kind "raise"), or was never
\* loaded (kind "no_model").
DetectorYields(dets) == [kind |-> "boxes", dets |-> dets]

DetectorRaises == [kind |-> "raise", dets |-> <<>>]

DetectorNoModel == [kind |-> "no_model", dets |-> <<>>]

\* detect(): the model keeps the boxes of confidence >= conf; an exception
\* of the inference is caught, reported and gives the empty list.  raised
\* tells whether an exception leaves detect().
YOLODetector_detect_NoCatch(outcome, conf) ==
    IF outcome.kind = "no_model"
    THEN [detections |-> <<>>, raised |-> FALSE, log |-> {"model_not_loaded"}]
    ELSE IF outcome.kind = "raise"
    THEN [detections |-> <<>>, raised |-> TRUE, log |-> {}]
    ELSE LET Kept(d) == d.confidence >= conf
         IN  [detections |-> SelectSeq(outcome.dets, Kept),
              raised |-> FALSE, log |-> {}]

YOLODetector_detect(outcome, conf) ==
    IF outcome.kind = "no_model"
    THEN [detections |-> <<>>, raised |-> FALSE, log |-> {"model_not_loaded"}]
    ELSE IF outcome.kind = "raise"
    THEN [detections |-> <<>>, raised |-> FALSE, log |-> {"detect_error"}]
    ELSE LET Kept(d) == d.confidence >= conf
         IN  [detections |-> SelectSeq(outcome.dets, Kept),
              raised |-> FALSE, log |-> {}]

\* ----------------------------------------------------- AnnotationGenerator
\* frame size in pixels: image.shape[:2] as <<height, width>>
image_shape == <<480, 640>>

Clamp01(v) == Max2(0, Min2(1000000, v))

\* the YOLO line as <<class_id, cx, cy, w, h>>, the four in 1/1000000
\* (six decimals)
AnnotationGenerator_convert_to_yolo_format(tb, width, height) ==
    <<tb.class_id,
      Clamp01(((tb.x1 + tb.x2) * 5000) \div width),
      Clamp01(((tb.y1 + tb.y2) * 5000) \div height),
      Clamp01(((tb.x2 - tb.x1) * 10000) \div width),
      Clamp01(((tb.y2 - tb.y1) * 10000) \div height)>>

\* save_frame_annotation writes a file only for a non-empty result list
AnnotationGenerator_writes_Always(tracking_results) == TRUE

AnnotationGenerator_writes(tracking_results) == tracking_results # <<>>

\* the lines save_frame_annotation writes
AnnotationLines(tracking_results, width, height) ==
    [i \in 1..Len(tracking_results) |->
        AnnotationGenerator_convert_to_yolo_format(tracking_results[i],
                                                   width, height)]

\* a directory of files after writing one of them
WriteFile(files, name, content) ==
    [n \in DOMAIN files \cup {name} |->
        IF n = name THEN content ELSE files[n]]

\* ------------------------------------------------------ VideoAutoAnnotator
stat_high_conf_threshold == 60

stat_low_conf_threshold == 30

statistics_init ==
    [total_frames |-> 0, total_tracks |-> 0, active_tracks |-> 0,
     total_detections |-> 0, high_conf_detections |-> 0,
     low_conf_detections |-> 0, successful_tracks |-> 0, lost_tracks |-> 0,
     saved_images |-> 0, saved_annotations |-> 0, saved_labels |-> 0,
     tracking_start_frame |-> 0, tracking_end_frame |-> 0,
     target_class |-> "", confidence_sum |-> 0]

RECURSIVE SumConfidence(_)
SumConfidence(results) ==
    IF results = <<>> THEN 0
    ELSE Head(results).confidence + SumConfidence(Tail(results))

CountHigh(detections) ==
    LET H(d) == d.confidence >= stat_high_conf_threshold
    IN  Len(SelectSeq(detections, H))

CountLow(detections) ==
    LET L(d) == d.confidence < stat_high_conf_threshold
                /\ d.confidence >= stat_low_conf_threshold
    IN  Len(SelectSeq(detections, L))

VARIABLES
    \* VideoAutoAnnotator
    is_initialized, frame_count, tracking_history, statistics,
    confidence_threshold,
    \* SingleObjectTracker
    target_track, is_tracking, kalman_filter, max_disappeared,
    high_iou_threshold, low_iou_threshold,
    \* the output directory: labels/<name>.txt with its lines, the names
    \* under images/, and how many times a label file was opened for writing
    labels, images, label_writes,
    \* the last call: its name and arguments, what it returned, the
    \* exception that escaped it ("none" if it returned), what it printed
    call, result, exception, log,
    \* number of calls made so far
    calls,
    \* a second annotator, given the same seed and the same detector output
    \* as the first but never asked to save: its tracker, its frame
    \* counter and the list its last call returned
    twin,
    \* VideoTrackingWorker: where run() stands, the stop flag, the loop's
    \* frame_index and saved_count, the values tracking_finished was
    \* emitted with, the records written to tracking_results.json and the
    \* dict statistics_ready was emitted with
    worker_pc, should_stop, frame_index, saved_count, finished, exported,
    stats_ready,
    \* VideoTrackingInterface: the slot auto_track_btn.clicked is connected
    \* to, its is_tracking flag, how many workers it has started, how many
    \* tracking_finished signals were delivered to it and whether the
    \* process is still alive; and the workers it started earlier and
    \* holds no reference to any more
    interface, detached

vars == <<is_initialized, frame_count, tracking_history, statistics,
          confidence_threshold, target_track, is_tracking, kalman_filter,
          max_disappeared, high_iou_threshold, low_iou_threshold,
          labels, images, label_writes, call, result, exception, log, calls,
          twin, worker_pc, should_stop, frame_index, saved_count, finished,
          exported, stats_ready, interface, detached>>

worker_vars == <<worker_pc, should_stop, frame_index, saved_count, finished,
                 exported, stats_ready>>

iface_vars == <<interface, detached>>

\* what the model keeps besides the annotator under study
side_vars == <<twin, worker_vars, iface_vars>>

config_vars == <<confidence_threshold, max_disappeared, high_iou_threshold,
                 low_iou_threshold>>

fs_vars == <<labels, images, label_writes>>

annotator_vars ==
    <<is_initialized, frame_count, tracking_history, statistics,
      config_vars, target_track, is_tracking, kalman_filter, fs_vars,
      call, result, exception, log, calls>>

\* the tracker object of the current state
tracker ==
    Tracker(target_track, is_tracking, kalman_filter, max_disappeared,
            high_iou_threshold, low_iou_threshold)

\* VideoAutoAnnotator.__init__ with the given keyword arguments
VideoAutoAnnotator_init(conf, high_iou, low_iou, max_dis) ==
    /\ is_initialized = FALSE
    /\ frame_count = 0
    /\ tracking_history = <<>>
    /\ statistics = statistics_init
    /\ confidence_threshold = conf
    /\ target_track = NoTrack
    /\ is_tracking = FALSE
    /\ kalman_filter = KalmanFilter_new
    /\ max_disappeared = max_dis
    /\ high_iou_threshold = high_iou
    /\ low_iou_threshold = low_iou
    /\ labels = [n \in {} |-> <<>>]
    /\ images = {}
    /\ label_writes = 0
    /\ call = [op |-> "__init__"]
    /\ result = <<>>
    /\ exception = "none"
    /\ log = {}
    /\ calls = 0

\* a rectangle of positive width and height
IsValidBox(b) == b.x2 > b.x1 /\ b.y2 > b.y1

\* the box a seed call tracks
TargetBox_FirstValid(manual_boxes) ==
    LET valid == SelectSeq(manual_boxes, IsValidBox)
    IN  IF valid = <<>> THEN manual_boxes[1] ELSE valid[1]

TargetBox_Last(manual_boxes) == manual_boxes[Len(manual_boxes)]

TargetBox(manual_boxes) == manual_boxes[1]

VideoAutoAnnotator_initialize_from_manual_annotation(manual_boxes) ==
    /\ call' = [op |-> "initialize_from_manual_annotation",
                manual_boxes |-> manual_boxes]
    /\ exception' = "none"
    /\ calls' = calls + 1
    /\ UNCHANGED <<config_vars, fs_vars>>
    /\ IF manual_boxes = <<>>
       THEN /\ result' = <<>>
            /\ log' = {"no_manual_boxes"}
            /\ UNCHANGED <<is_initialized, frame_count, tracking_history,
                           statistics, target_track, is_tracking,
                           kalman_filter>>
       ELSE LET target_box == TargetBox(manual_boxes)
                trk == SingleObjectTracker_initialize_target(
                           tracker, target_box, frame_count)
                tracking_results ==
                    <<TrackingBox(track_id,
                                  <<target_box.x1, target_box.y1,
                                    target_box.x2, target_box.y2>>,
                                  100, target_box.class_id,
                                  target_box.class_name, frame_count)>>
            IN  /\ target_track' = trk.target_track
                /\ is_tracking' = trk.is_tracking
                /\ kalman_filter' = trk.kalman_filter
                /\ is_initialized' = TRUE
                /\ statistics' =
                     [statistics EXCEPT
                        !.total_tracks = 1,
                        !.active_tracks = 1,
                        !.tracking_start_frame = frame_count,
                        !.target_class = target_box.class_name,
                        !.confidence_sum = @ + 100,
                        !.high_conf_detections = @ + 1]
                /\ frame_count' = frame_count + 1
                /\ tracking_history' = tracking_history \o tracking_results
                /\ result' = tracking_results
                /\ log' = IF Len(manual_boxes) > 1
                          THEN {"extra_boxes_ignored"} ELSE {}

\* What the file system does in one process_frame: image is "ok", "false"
\* (cv2.imwrite returns False, nothing written) or "raise" (os.makedirs
\* raises OSError); label is "ok" or "raise" (os.makedirs or open raises
\* OSError).
IOOutcome(image, label) == [image |-> image, label |-> label]

\* process_frame on an annotator that was not seeded: a warning and []
process_frame_uninitialized_CountsFrame ==
    /\ result' = <<>>
    /\ exception' = "none"
    /\ log' = {"tracker_not_initialized"}
    /\ statistics' = [statistics EXCEPT !.lost_tracks = @ + 1,
                                        !.total_frames = frame_count + 1]
    /\ frame_count' = frame_count + 1
    /\ UNCHANGED <<tracking_history, target_track, is_tracking,
                   kalman_filter, fs_vars>>

process_frame_uninitialized ==
    /\ result' = <<>>
    /\ exception' = "none"
    /\ log' = {"tracker_not_initialized"}
    /\ UNCHANGED <<frame_count, tracking_history, statistics,
                   target_track, is_tracking, kalman_filter, fs_vars>>

\* process_frame when detect() lets an exception through: nothing after
\* the call runs
process_frame_detect_raised(det) ==
    /\ result' = <<>>
    /\ exception' = "Exception"
    /\ log' = det.log
    /\ UNCHANGED <<frame_count, tracking_history, statistics,
                   target_track, is_tracking, kalman_filter, fs_vars>>

VideoAutoAnnotator_process_frame(outcome, frame_name, save_annotation, save_image, io) ==
    /\ call' = [op |-> "process_frame", detector |-> outcome,
                frame_name |-> frame_name,
                save_annotation |-> save_annotation,
                save_image |-> save_image, io |-> io]
    /\ calls' = calls + 1
    /\ UNCHANGED <<config_vars, is_initialized>>
    /\ IF ~is_initialized THEN process_frame_uninitialized
       ELSE
       LET do_image == save_image /\ frame_name # NoName
           image_raises == do_image /\ io.image = "raise"
           ask_label == save_annotation /\ frame_name # NoName
                        /\ ~image_raises
           \* the statistics after the detection and tracking counters
           Counted(detections, tracking_results) ==
             IF tracking_results # <<>>
             THEN [statistics EXCEPT
                     !.total_detections = @ + Len(detections),
                     !.high_conf_detections = @ + CountHigh(detections),
                     !.low_conf_detections = @ + CountLow(detections),
                     !.successful_tracks = @ + 1,
                     !.active_tracks = 1,
                     !.confidence_sum = @ + SumConfidence(tracking_results)]
             ELSE [statistics EXCEPT
                     !.total_detections = @ + Len(detections),
                     !.high_conf_detections = @ + CountHigh(detections),
                     !.low_conf_detections = @ + CountLow(detections),
                     !.lost_tracks = @ + 1,
                     !.active_tracks = 0]
           \* ... and after the save counters
           Saved(stats, annotation_saved) ==
             [stats EXCEPT
                !.saved_images = IF do_image /\ ~image_raises
                                 THEN @ + 1 ELSE @,
                !.saved_annotations = IF annotation_saved THEN @ + 1 ELSE @,
                !.saved_labels = IF annotation_saved THEN @ + 1 ELSE @]
           \* the end of the call: the exception of a failed write leaves
           \* before the frame counters are touched
           Finish(tracking_results, stats, raised) ==
             IF raised
             THEN /\ exception' = "OSError"
                  /\ result' = <<>>
                  /\ statistics' = stats
                  /\ frame_count' = frame_count
             ELSE /\ exception' = "none"
                  /\ result' = tracking_results
                  /\ statistics' =
                       [stats EXCEPT !.total_frames = frame_count + 1,
                                     !.tracking_end_frame = frame_count]
                  /\ frame_count' = frame_count + 1
           \* the saving steps, for the label decision do_label
           Save(detections, tracking_results, do_label) ==
             /\ images' = IF do_image /\ io.image = "ok"
                          THEN images \cup {frame_name} ELSE images
             /\ labels' = IF do_label /\ io.label # "raise"
                          THEN WriteFile(labels, frame_name,
                                   AnnotationLines(tracking_results,
                                                   image_shape[2],
                                                   image_shape[1]))
                          ELSE labels
             /\ label_writes' = IF do_label /\ io.label # "raise"
                                THEN label_writes + 1 ELSE label_writes
             /\ Finish(tracking_results,
                       Saved(Counted(detections, tracking_results),
                             do_label /\ io.label # "raise"),
                       image_raises \/ (do_label /\ io.label = "raise"))
           \* everything after detect() returned det and update() upd
           Tracked(det, upd) ==
             /\ target_track' = upd.trk.target_track
             /\ is_tracking' = upd.trk.is_tracking
             /\ kalman_filter' = upd.trk.kalman_filter
             /\ tracking_history' = tracking_history \o upd.results
             /\ log' = det.log \cup upd.log
                       \cup (IF ask_label
                                /\ ~AnnotationGenerator_writes(upd.results)
                             THEN {"no_result_skip_annotation"} ELSE {})
             /\ Save(det.detections, upd.results,
                     ask_label /\ AnnotationGenerator_writes(upd.results))
           Detected(det) ==
             IF det.raised THEN process_frame_detect_raised(det)
             ELSE Tracked(det,
                          SingleObjectTracker_update(tracker, det.detections,
                                                     frame_count))
       IN  Detected(YOLODetector_detect(outcome, confidence_threshold))

VideoAutoAnnotator_reset_tracker ==
    LET trk == SingleObjectTracker_reset(tracker)
    IN  /\ target_track' = trk.target_track
        /\ is_tracking' = trk.is_tracking
        /\ kalman_filter' = trk.kalman_filter
        /\ is_initialized' = FALSE
        /\ frame_count' = 0
        /\ tracking_history' = <<>>
        /\ call' = [op |-> "reset_tracker"]
        /\ result' = <<>>
        /\ exception' = "none"
        /\ log' = {"tracker_reset"}
        /\ calls' = calls + 1
        /\ UNCHANGED <<statistics, config_vars, fs_vars>>

\* get_tracking_statistics(): the counters plus the two quotients, each as
\* the exact fraction <<numerator, denominator>> (0.0 is <<0, 1>>), and
\* the tracker's flag
VideoAutoAnnotator_get_tracking_statistics ==
    [counters |-> statistics,
     average_confidence |->
        IF statistics.successful_tracks > 0
        THEN <<statistics.confidence_sum, statistics.successful_tracks>>
        ELSE <<0, 1>>,
     tracking_success_rate |->
        IF statistics.total_frames > 0
        THEN <<statistics.successful_tracks, statistics.total_frames>>
        ELSE <<0, 1>>,
     is_tracking |-> is_tracking]

\* export_tracking_results(): one JSON object per history entry
VideoAutoAnnotator_export_tracking_results ==
    [i \in 1..Len(tracking_history) |->
        [frame_id |-> tracking_history[i].frame_id,
         track_id |-> tracking_history[i].track_id,
         x1 |-> tracking_history[i].x1, y1 |-> tracking_history[i].y1,
         x2 |-> tracking_history[i].x2, y2 |-> tracking_history[i].y2,
         confidence |-> tracking_history[i].confidence,
         class_id |-> tracking_history[i].class_id,
         class_name |-> tracking_history[i].class_name]]

\* ------------------------------------------------- the annotator run twice
\* the second annotator after __init__
Twin_init(high_iou, low_iou, max_dis) ==
    [is_initialized |-> FALSE, frame_count |-> 0, result |-> <<>>,
     tracker |-> Tracker(NoTrack, FALSE, KalmanFilter_new, max_dis,
                         high_iou, low_iou)]

\* ... after initialize_from_manual_annotation(manual_boxes)
Twin_initialize_from_manual_annotation(t, manual_boxes) ==
    IF manual_boxes = <<>> THEN [t EXCEPT !.result = <<>>]
    ELSE [is_initialized |-> TRUE,
          frame_count |-> t.frame_count + 1,
          result |-> <<TrackingBox(track_id,
                                   <<manual_boxes[1].x1, manual_boxes[1].y1,
                                     manual_boxes[1].x2, manual_boxes[1].y2>>,
                                   100, manual_boxes[1].class_id,
                                   manual_boxes[1].class_name,
                                   t.frame_count)>>,
          tracker |-> SingleObjectTracker_initialize_target(
                          t.tracker, TargetBox(manual_boxes), t.frame_count)]

\* ... after process_frame(image) with save_annotation and save_image off
Twin_process_frame(t, outcome, conf) ==
    IF ~t.is_initialized THEN [t EXCEPT !.result = <<>>]
    ELSE LET Tracked(upd) ==
               [t EXCEPT !.tracker = upd.trk,
                         !.result = upd.results,
                         !.frame_count = @ + 1]
         IN  Tracked(SingleObjectTracker_update(
                         t.tracker,
                         YOLODetector_detect(outcome, conf).detections,
                         t.frame_count))

\* ----------------------------------------------------- VideoTrackingWorker
\* nothing written to tracking_results.json, nothing emitted
NoExport == [written |-> FALSE]

NoStats == [emitted |-> FALSE]

\* VideoTrackingWorker.__init__
VideoTrackingWorker_init ==
    /\ worker_pc = "idle"
    /\ should_stop = FALSE
    /\ frame_index = 0
    /\ saved_count = 0
    /\ finished = <<>>
    /\ exported = NoExport
    /\ stats_ready = NoStats

\* stop(), called on the UI thread
VideoTrackingWorker_stop ==
    /\ should_stop' = TRUE
    /\ UNCHANGED <<worker_pc, frame_index, saved_count, finished, exported,
                   stats_ready>>

\* f"frame_{saved_count:06d}"
FrameName(n) ==
    <<"frame_000000", "frame_000001", "frame_000002", "frame_000003",
      "frame_000004", "frame_000005", "frame_000006">>[n + 1]

\* the test of the frame loop
WorkerContinues_IgnoresStop(index, total_frames, stop) == index < total_frames

WorkerContinues(index, total_frames, stop) == index < total_frames /\ ~stop

\* whether the loop saves the frame at this index
ShouldSave(index, start_frame, frame_interval) ==
    (index - start_frame) % frame_interval = 0

\* run() up to the seeding of the annotator; opened is whether the video
\* could be opened and its first frame read
VideoTrackingWorker_run_begin(opened, manual_boxes) ==
    /\ worker_pc = "idle"
    /\ IF ~opened
       THEN /\ finished' = Append(finished, FALSE)
            /\ worker_pc' = "done"
            /\ UNCHANGED annotator_vars
       ELSE /\ VideoAutoAnnotator_initialize_from_manual_annotation(
                   manual_boxes)
            /\ worker_pc' = "seeded"
            /\ UNCHANGED finished
    /\ UNCHANGED <<should_stop, frame_index, saved_count, exported,
                   stats_ready, twin>>

\* run(): image and label of the first frame are saved by the worker
\* itself, then the loop is entered at start_frame + 1
VideoTrackingWorker_run_save_first(start_frame) ==
    /\ worker_pc = "seeded"
    /\ images' = images \cup {FrameName(saved_count)}
    /\ labels' = IF AnnotationGenerator_writes(result)
                 THEN WriteFile(labels, FrameName(saved_count),
                                AnnotationLines(result, image_shape[2],
                                                image_shape[1]))
                 ELSE labels
    /\ label_writes' = IF AnnotationGenerator_writes(result)
                       THEN label_writes + 1 ELSE label_writes
    /\ statistics' =
         [statistics EXCEPT
            !.saved_images = @ + 1,
            !.saved_annotations =
               IF AnnotationGenerator_writes(result) THEN @ + 1 ELSE @,
            !.saved_labels =
               IF AnnotationGenerator_writes(result) THEN @ + 1 ELSE @]
    /\ saved_count' = saved_count + 1
    /\ frame_index' = start_frame + 1
    /\ worker_pc' = "test"
    /\ UNCHANGED <<is_initialized, frame_count, tracking_history,
                   config_vars, target_track, is_tracking, kalman_filter,
                   call, result, exception, log, calls, twin, should_stop,
                   finished, exported, stats_ready>>

\* run(): the while test
VideoTrackingWorker_run_test(total_frames) ==
    /\ worker_pc = "test"
    /\ worker_pc' = IF WorkerContinues(frame_index, total_frames, should_stop)
                    THEN "frame" ELSE "export"
    /\ UNCHANGED <<annotator_vars, twin, should_stop, frame_index,
                   saved_count, finished, exported, stats_ready>>

\* run(): cap.read() and process_frame of one loop round; ret is what
\* cap.read() reports, outcome and io what detector and file system do
VideoTrackingWorker_run_frame(ret, outcome, io, start_frame, frame_interval) ==
    /\ worker_pc = "frame"
    /\ IF ~ret
       THEN /\ worker_pc' = "export"
            /\ UNCHANGED annotator_vars
       ELSE /\ IF ShouldSave(frame_index, start_frame, frame_interval)
               THEN VideoAutoAnnotator_process_frame(
                        outcome, FrameName(saved_count), TRUE, FALSE, io)
               ELSE VideoAutoAnnotator_process_frame(
                        outcome, NoName, FALSE, FALSE, io)
            /\ worker_pc' = IF exception' = "none" THEN "processed"
                            ELSE "except"
    /\ UNCHANGED <<twin, should_stop, frame_index, saved_count, finished,
                   exported, stats_ready>>

\* run(): the rest of the loop round: the image of a saved frame, the
\* worker's own saved_images count, the progress signals, frame_index
VideoTrackingWorker_run_frame_end(start_frame, frame_interval) ==
    /\ worker_pc = "processed"
    /\ IF ShouldSave(frame_index, start_frame, frame_interval)
       THEN /\ images' = images \cup {FrameName(saved_count)}
            /\ statistics' = [statistics EXCEPT !.saved_images = @ + 1]
            /\ saved_count' = saved_count + 1
       ELSE UNCHANGED <<images, statistics, saved_count>>
    /\ frame_index' = frame_index + 1
    /\ worker_pc' = "test"
    /\ UNCHANGED <<is_initialized, frame_count, tracking_history,
                   config_vars, target_track, is_tracking, kalman_filter,
                   labels, label_writes, call, result, exception, log,
                   calls, twin, should_stop, finished, exported,
                   stats_ready>>

\* run(): export_tracking_results after the loop; written is whether
\* tracking_results.json could be written
VideoTrackingWorker_run_export(written) ==
    /\ worker_pc = "export"
    /\ IF written
       THEN /\ exported' = [written |-> TRUE,
                            records |->
                              VideoAutoAnnotator_export_tracking_results]
            /\ worker_pc' = "report"
       ELSE /\ worker_pc' = "except"
            /\ UNCHANGED exported
    /\ UNCHANGED <<annotator_vars, twin, should_stop, frame_index,
                   saved_count, finished, stats_ready>>

\* run(): statistics_ready and tracking_finished at the end of the try
VideoTrackingWorker_run_report ==
    /\ worker_pc = "report"
    /\ stats_ready' = [emitted |-> TRUE,
                       stats |-> VideoAutoAnnotator_get_tracking_statistics]
    /\ finished' = Append(finished, ~should_stop)
    /\ worker_pc' = "done"
    /\ UNCHANGED <<annotator_vars, twin, should_stop, frame_index,
                   saved_count, exported>>

\* run(): the except clause
VideoTrackingWorker_run_except ==
    /\ worker_pc = "except"
    /\ finished' = Append(finished, FALSE)
    /\ worker_pc' = "done"
    /\ UNCHANGED <<annotator_vars, twin, should_stop, frame_index,
                   saved_count, exported, stats_ready>>

\* -------------------------------------------------- VideoTrackingInterface
\* VideoTrackingInterface.__init__: the button starts a tracking run, no
\* worker has been created
VideoTrackingInterface_init ==
    /\ interface = [auto_track_btn |-> "start_auto_tracking",
                    is_tracking |-> FALSE, starts |-> 0, delivered |-> 0,
                    alive |-> TRUE]
    /\ detached = <<>>

\* ------------------------------------------------------------------ inputs
\* constructor arguments of the explored sessions
SmallMaxDisappeared == 2

TrackerHighIoU == 300

TrackerLowIoU == 150

DetectorConfidence == 25

SeedCup == ManualBox(Px(10), Px(10), Px(20), Px(20), 0, "cup")

SeedBowl == ManualBox(Px(30), Px(10), Px(40), Px(24), 1, "bowl")

\* a seed rectangle of zero width
SeedFlat == ManualBox(Px(10), Px(10), Px(10), Px(20), 2, "fork")

\* a seed rectangle with x1 > x2
SeedInverted == ManualBox(Px(20), Px(10), Px(10), Px(20), 2, "fork")

SeedLists ==
    {<<>>, <<SeedCup>>, <<SeedBowl, SeedCup>>, <<SeedFlat, SeedCup>>,
     <<SeedInverted>>}

DetSame == DetectionBox(Px(10), Px(10), Px(20), Px(20), 90, 0, "cup")

DetShifted == DetectionBox(Px(12), Px(10), Px(24), Px(20), 80, 0, "cup")

DetLow == DetectionBox(Px(11), Px(10), Px(21), Px(20), 40, 0, "cup")

DetOther == DetectionBox(Px(10), Px(10), Px(20), Px(20), 70, 1, "bowl")

DetectorOutcomes ==
    {DetectorYields(<<>>), DetectorYields(<<DetSame>>),
     DetectorYields(<<DetShifted>>), DetectorYields(<<DetOther, DetLow>>),
     DetectorRaises}

IOAllOk == IOOutcome("ok", "ok")

\* ----------------------------------------------------------- specification
Init ==
    /\ VideoAutoAnnotator_init(DetectorConfidence, TrackerHighIoU,
                               TrackerLowIoU, SmallMaxDisappeared)
    /\ twin = Twin_init(TrackerHighIoU, TrackerLowIoU, SmallMaxDisappeared)
    /\ VideoTrackingWorker_init
    /\ VideoTrackingInterface_init

Seed ==
    /\ calls < MaxCalls
    /\ \E manual_boxes \in SeedLists :
          VideoAutoAnnotator_initialize_from_manual_annotation(manual_boxes)
    /\ UNCHANGED side_vars

\* a frame processed without saving anything
ProcessFrame ==
    /\ calls < MaxCalls
    /\ \E outcome \in DetectorOutcomes :
          VideoAutoAnnotator_process_frame(outcome, NoName, FALSE, FALSE,
                                           IOAllOk)
    /\ UNCHANGED side_vars

Reset ==
    /\ calls < MaxCalls
    /\ VideoAutoAnnotator_reset_tracker
    /\ UNCHANGED side_vars

Next == Seed \/ ProcessFrame \/ Reset

Spec == Init /\ [][Next]_vars

\* ------------------------------------------- sessions that save their frames
\* (frame_name, save_annotation, save_image, what the file system does)
SaveRequest(frame_name, save_annotation, save_image, io) ==
    [frame_name |-> frame_name, save_annotation |-> save_annotation,
     save_image |-> save_image, io |-> io]

SaveRequests ==
    {SaveRequest(NoName, TRUE, TRUE, IOAllOk),
     SaveRequest("frame_000001", TRUE, FALSE, IOAllOk),
     SaveRequest("frame_000001", TRUE, FALSE, IOOutcome("ok", "raise")),
     SaveRequest("frame_000001", FALSE, TRUE, IOOutcome("false", "ok")),
     SaveRequest("frame_000002", TRUE, TRUE, IOAllOk),
     SaveRequest("frame_000002", TRUE, TRUE, IOOutcome("raise", "ok"))}

SaveDetectorOutcomes ==
    {DetectorYields(<<>>), DetectorYields(<<DetSame>>), DetectorNoModel}

SeedOne ==
    /\ calls < MaxCalls
    /\ VideoAutoAnnotator_initialize_from_manual_annotation(<<SeedCup>>)
    /\ twin' = Twin_initialize_from_manual_annotation(twin, <<SeedCup>>)
    /\ UNCHANGED <<worker_vars, iface_vars>>

SaveFrame ==
    /\ calls < MaxCalls
    /\ \E outcome \in SaveDetectorOutcomes, req \in SaveRequests :
          /\ VideoAutoAnnotator_process_frame(outcome, req.frame_name,
                                              req.save_annotation,
                                              req.save_image, req.io)
          /\ twin' = Twin_process_frame(twin, outcome, confidence_threshold)
    /\ UNCHANGED <<worker_vars, iface_vars>>

NextSave == SeedOne \/ SaveFrame

SpecSave == Init /\ [][NextSave]_vars

\* ------------------------------------------------- the end-to-end scenario
\* SingleObjectTracker's default max_disappeared
default_max_disappeared == 30

\* frames processed in the scenario
E2EFrames == 36

E2ESeedBox == ManualBox(Px(100), Px(100), Px(200), Px(200), 41, "cup")

E2EDetection ==
    DetectionBox(Px(100), Px(100), Px(200), Px(200), 90, 41, "cup")

InitE2E ==
    /\ VideoAutoAnnotator_init(DetectorConfidence, TrackerHighIoU,
                               TrackerLowIoU, default_max_disappeared)
    /\ twin = Twin_init(TrackerHighIoU, TrackerLowIoU,
                        default_max_disappeared)
    /\ VideoTrackingWorker_init
    /\ VideoTrackingInterface_init

\* frame 0: the seed
E2ESeed ==
    /\ ~is_initialized
    /\ VideoAutoAnnotator_initialize_from_manual_annotation(<<E2ESeedBox>>)
    /\ UNCHANGED side_vars

\* frame 1: the detector reports the seed box again
E2EMatch ==
    /\ is_initialized
    /\ frame_count = 1
    /\ \E req \in {SaveRequest(NoName, FALSE, FALSE, IOAllOk),
                   SaveRequest("frame_000001", TRUE, FALSE, IOAllOk)} :
          VideoAutoAnnotator_process_frame(
              DetectorYields(<<E2EDetection>>), req.frame_name,
              req.save_annotation, req.save_image, req.io)
    /\ UNCHANGED side_vars

\* frames 2, 3, ...: no detection at all
E2EMiss ==
    /\ is_initialized
    /\ frame_count >= 2
    /\ frame_count < E2EFrames
    /\ \E outcome \in {DetectorYields(<<>>), DetectorRaises},
          req \in {SaveRequest(NoName, FALSE, FALSE, IOAllOk),
                   SaveRequest("frame_000002", TRUE, FALSE, IOAllOk)} :
          VideoAutoAnnotator_process_frame(outcome, req.frame_name,
                                           req.save_annotation,
                                           req.save_image, req.io)
    /\ UNCHANGED side_vars

NextE2E == E2ESeed \/ E2EMatch \/ E2EMiss

SpecE2E == InitE2E /\ [][NextE2E]_vars

\* ------------------------------------------ sessions that probe the tiers
\* frames without a detection at the start of a session
MaxMisses == 11

\* detections the detector reports in a session
MaxDetectionsSeen == 2

\* same class, high confidence, inside the seed box: IoU with it 0.30,
\* 0.31
DetEdge == DetectionBox(Px(10), Px(10), Px(13), Px(20), 90, 0, "cup")

DetOver == DetectionBox(Px(10), Px(10), 1310, Px(20), 90, 0, "cup")

\* same class, low confidence, IoU with the seed box 0.30
DetEdgeLow == DetectionBox(Px(10), Px(10), Px(13), Px(20), 40, 0, "cup")

\* the detector of these sessions reports every box of confidence >= 0.1
MatchDetectorConfidence == 10

\* same class, on the seed box, confidence 0.2
DetDim == DetectionBox(Px(10), Px(10), Px(20), Px(20), 20, 0, "cup")

\* same class, IoU with the seed box 0.12: low and high confidence
DetFaint == DetectionBox(Px(10), Px(10), 1120, Px(20), 40, 0, "cup")

DetFaintHigh == DetectionBox(Px(10), Px(10), 1120, Px(20), 90, 0, "cup")

\* other class, high confidence: IoU with the seed box 0.33, 0.36, 0.37
DetOtherWeak == DetectionBox(Px(10), Px(10), 1330, Px(20), 70, 1, "bowl")

DetOtherEdge == DetectionBox(Px(10), Px(10), 1360, Px(20), 70, 1, "bowl")

DetOtherOver == DetectionBox(Px(10), Px(10), 1370, Px(20), 70, 1, "bowl")

MatchOutcomes ==
    {DetectorYields(<<DetSame>>),
     DetectorYields(<<DetLow, DetShifted>>),
     DetectorYields(<<DetShifted, DetLow>>),
     DetectorYields(<<DetOther, DetShifted>>),
     DetectorYields(<<DetShifted, DetOther>>),
     DetectorYields(<<DetEdge>>), DetectorYields(<<DetOver>>),
     DetectorYields(<<DetEdgeLow>>), DetectorYields(<<DetOtherWeak>>),
     DetectorYields(<<DetOtherEdge>>), DetectorYields(<<DetOtherOver>>),
     DetectorYields(<<DetOtherOver, DetOther>>),
     DetectorYields(<<DetFaint>>), DetectorYields(<<DetFaint, DetFaintHigh>>),
     DetectorYields(<<DetDim>>), DetectorYields(<<DetDim, DetEdgeLow>>)}

InitMatch ==
    /\ VideoAutoAnnotator_init(MatchDetectorConfidence, TrackerHighIoU,
                               TrackerLowIoU, default_max_disappeared)
    /\ twin = Twin_init(TrackerHighIoU, TrackerLowIoU,
                        default_max_disappeared)
    /\ VideoTrackingWorker_init
    /\ VideoTrackingInterface_init

MatchSeed ==
    /\ ~is_initialized
    /\ VideoAutoAnnotator_initialize_from_manual_annotation(<<SeedCup>>)
    /\ UNCHANGED side_vars

\* the target is out of sight from the first frame on
MatchMiss ==
    /\ is_initialized
    /\ statistics.total_detections = 0
    /\ target_track.disappeared < MaxMisses
    /\ VideoAutoAnnotator_process_frame(DetectorYields(<<>>), NoName, FALSE,
                                        FALSE, IOAllOk)
    /\ UNCHANGED side_vars

\* the detector reports something
MatchFrame ==
    /\ is_initialized
    /\ statistics.total_detections < MaxDetectionsSeen
    /\ \E outcome \in MatchOutcomes :
          VideoAutoAnnotator_process_frame(outcome, NoName, FALSE, FALSE,
                                           IOAllOk)
    /\ UNCHANGED side_vars

NextMatch == MatchSeed \/ MatchMiss \/ MatchFrame

SpecMatch == InitMatch /\ [][NextMatch]_vars

\* ------------------------------------- sessions long enough for the totals
\* number of calls made on the annotator in these sessions
MaxStatsCalls == 7

StatsSeed ==
    /\ calls < MaxStatsCalls
    /\ VideoAutoAnnotator_initialize_from_manual_annotation(<<SeedCup>>)
    /\ UNCHANGED side_vars

StatsFrame ==
    /\ calls < MaxStatsCalls
    /\ \E outcome \in {DetectorYields(<<>>), DetectorYields(<<DetShifted>>)} :
          VideoAutoAnnotator_process_frame(outcome, NoName, FALSE, FALSE,
                                           IOAllOk)
    /\ UNCHANGED side_vars

StatsReset ==
    /\ calls < MaxStatsCalls
    /\ is_initialized
    /\ VideoAutoAnnotator_reset_tracker
    /\ UNCHANGED side_vars

NextStats == StatsSeed \/ StatsFrame \/ StatsReset

SpecStats == Init /\ [][NextStats]_vars

\* ------------------------------------------------ the worker and its user
\* frames of the video
WorkerTotalFrames == 5

\* config['frame_interval'] of the run
WorkerFrameInterval == 2

\* the keyword arguments run() constructs the annotator with
WorkerConfidence == 50

WorkerMaxDisappeared == 30

InitWorker ==
    /\ VideoAutoAnnotator_init(WorkerConfidence, TrackerHighIoU,
                               TrackerLowIoU, WorkerMaxDisappeared)
    /\ twin = Twin_init(TrackerHighIoU, TrackerLowIoU, WorkerMaxDisappeared)
    /\ VideoTrackingWorker_init
    /\ VideoTrackingInterface_init

WorkerStart ==
    /\ \E opened \in BOOLEAN :
          VideoTrackingWorker_run_begin(opened, <<SeedCup>>)
    /\ UNCHANGED iface_vars

WorkerSaveFirst ==
    VideoTrackingWorker_run_save_first(0) /\ UNCHANGED iface_vars

WorkerTest ==
    VideoTrackingWorker_run_test(WorkerTotalFrames) /\ UNCHANGED iface_vars

WorkerFrame ==
    /\ \E ret \in BOOLEAN,
          outcome \in {DetectorYields(<<>>), DetectorYields(<<DetSame>>)},
          io \in {IOAllOk, IOOutcome("ok", "raise")} :
           VideoTrackingWorker_run_frame(ret, outcome, io, 0,
                                         WorkerFrameInterval)
    /\ UNCHANGED iface_vars

WorkerFrameEnd ==
    /\ VideoTrackingWorker_run_frame_end(0, WorkerFrameInterval)
    /\ UNCHANGED iface_vars

WorkerExport ==
    /\ \E written \in BOOLEAN : VideoTrackingWorker_run_export(written)
    /\ UNCHANGED iface_vars

WorkerReport == VideoTrackingWorker_run_report /\ UNCHANGED iface_vars

WorkerExcept == VideoTrackingWorker_run_except /\ UNCHANGED iface_vars

\* the user presses stop (stop_auto_tracking) at any moment
Stop ==
    /\ ~should_stop
    /\ VideoTrackingWorker_stop
    /\ UNCHANGED <<annotator_vars, twin, iface_vars>>

NextWorker ==
    \/ WorkerStart \/ WorkerSaveFirst \/ WorkerTest \/ WorkerFrame
    \/ WorkerFrameEnd \/ WorkerExport \/ WorkerReport \/ WorkerExcept
    \/ Stop

SpecWorker == InitWorker /\ [][NextWorker]_vars

\* --------------------------------- the interface, its button and its workers
\* tracking runs started in one session
MaxStarts == 2

\* frames of the video of these sessions
InterfaceTotalFrames == 3

\* the annotator a run() constructs, in place of the one of the run before;
\* the Auto_dataset directory is the same
VideoAutoAnnotator_fresh(conf, high_iou, low_iou, max_dis) ==
    /\ is_initialized' = FALSE
    /\ frame_count' = 0
    /\ tracking_history' = <<>>
    /\ statistics' = statistics_init
    /\ confidence_threshold' = conf
    /\ target_track' = NoTrack
    /\ is_tracking' = FALSE
    /\ kalman_filter' = KalmanFilter_new
    /\ max_disappeared' = max_dis
    /\ high_iou_threshold' = high_iou
    /\ low_iou_threshold' = low_iou
    /\ call' = [op |-> "__init__"]
    /\ result' = <<>>
    /\ exception' = "none"
    /\ log' = {}
    /\ calls' = 0
    /\ UNCHANGED fs_vars

\* the worker self.tracking_worker refers to, as the interface leaves it
\* behind when it assigns a new one: where its run() stands, its flag and
\* counters, the tracking_finished signals it has emitted, and of its
\* annotator the tracker, the frame counter, the last result and the
\* history
DetachedWorker ==
    [pc |-> worker_pc, should_stop |-> should_stop,
     frame_index |-> frame_index, saved_count |-> saved_count,
     emitted |-> Len(finished),
     annotator |-> [is_initialized |-> is_initialized,
                    frame_count |-> frame_count, result |-> result,
                    tracker |-> tracker],
     tracking_history |-> tracking_history]

\* start_auto_tracking(): no test of a worker still running; the button
\* becomes the stop button, a new worker is created in place of the old
\* one and started
VideoTrackingInterface_start_auto_tracking ==
    /\ interface' = [interface EXCEPT !.auto_track_btn = "stop_auto_tracking",
                                      !.is_tracking = TRUE,
                                      !.starts = @ + 1]
    /\ detached' = IF worker_pc = "none" THEN detached
                   ELSE Append(detached, DetachedWorker)
    /\ worker_pc' = "idle"
    /\ should_stop' = FALSE
    /\ frame_index' = 0
    /\ saved_count' = 0
    /\ finished' = <<>>
    /\ stats_ready' = NoStats
    /\ VideoAutoAnnotator_fresh(WorkerConfidence, TrackerHighIoU,
                                TrackerLowIoU, WorkerMaxDisappeared)
    /\ UNCHANGED <<exported, twin>>

\* stop_auto_tracking(): sets the worker's flag and makes the button the
\* start button again at once, without waiting for run() to return
VideoTrackingInterface_stop_auto_tracking ==
    /\ IF worker_pc # "none" THEN VideoTrackingWorker_stop
       ELSE UNCHANGED worker_vars
    /\ interface' = [interface EXCEPT !.auto_track_btn = "start_auto_tracking",
                                      !.is_tracking = FALSE]
    /\ UNCHANGED <<annotator_vars, twin, detached>>

\* on_tracking_finished(success), the slot of every worker's
\* tracking_finished signal
VideoTrackingInterface_on_tracking_finished ==
    /\ interface' = [interface EXCEPT !.auto_track_btn = "start_auto_tracking",
                                      !.is_tracking = FALSE,
                                      !.delivered = @ + 1]
    /\ UNCHANGED <<annotator_vars, twin, worker_vars, detached>>

\* tracking_finished signals emitted by the workers of ds
RECURSIVE EmittedBy(_)
EmittedBy(ds) ==
    IF ds = <<>> THEN 0 ELSE Head(ds).emitted + EmittedBy(Tail(ds))

\* tracking_finished signals emitted and not yet delivered
PendingFinished ==
    Len(finished) + EmittedBy(detached) - interface.delivered

\* export_tracking_results() for a history
ExportRecords(history) ==
    [i \in 1..Len(history) |->
        [frame_id |-> history[i].frame_id, track_id |-> history[i].track_id,
         x1 |-> history[i].x1, y1 |-> history[i].y1,
         x2 |-> history[i].x2, y2 |-> history[i].y2,
         confidence |-> history[i].confidence,
         class_id |-> history[i].class_id,
         class_name |-> history[i].class_name]]

\* the parameters of a run: the video's length, the frame the run starts
\* at, config['frame_interval'] and the manual boxes
RunOf(total_frames, start_frame, frame_interval, manual_boxes) ==
    [total_frames |-> total_frames, start_frame |-> start_frame,
     frame_interval |-> frame_interval, manual_boxes |-> manual_boxes]

\* what the surroundings do in one step of run(): whether the video opens,
\* what cap.read() reports, what detector and file system do, whether
\* tracking_results.json can be written
StepOf(opened, ret, outcome, io, written) ==
    [opened |-> opened, ret |-> ret, outcome |-> outcome, io |-> io,
     written |-> written]

\* the directory and tracking_results.json as a step leaves them
Written(d, imgs, lbls, writes, exp) ==
    [worker |-> d, images |-> imgs, labels |-> lbls, label_writes |-> writes,
     exported |-> exp]

\* the step that worker d, dropped by the interface, takes next in its
\* run(): d afterwards and what it wrote
Detached_run(d, run, env) ==
    LET a == d.annotator
        name == FrameName(d.saved_count)
        save == ShouldSave(d.frame_index, run.start_frame,
                           run.frame_interval)
        Same(d2) == Written(d2, images, labels, label_writes, exported)
        \* process_frame left the annotator as a2
        Processed(a2) ==
            IF save /\ AnnotationGenerator_writes(a2.result)
               /\ env.io.label = "raise"
            THEN Same([d EXCEPT !.pc = "except",
                                !.annotator =
                                   [a2 EXCEPT !.frame_count = a.frame_count,
                                              !.result = <<>>],
                                !.tracking_history = @ \o a2.result])
            ELSE Written([d EXCEPT !.pc = "processed",
                                   !.annotator = a2,
                                   !.tracking_history = @ \o a2.result],
                         images,
                         IF save /\ AnnotationGenerator_writes(a2.result)
                         THEN WriteFile(labels, name,
                                  AnnotationLines(a2.result, image_shape[2],
                                                  image_shape[1]))
                         ELSE labels,
                         IF save /\ AnnotationGenerator_writes(a2.result)
                         THEN label_writes + 1 ELSE label_writes,
                         exported)
        \* initialize_from_manual_annotation left the annotator as a2
        Seeded(a2) ==
            Same([d EXCEPT !.pc = "seeded", !.annotator = a2,
                           !.tracking_history = @ \o a2.result])
    IN  CASE d.pc = "idle" ->
               IF ~env.opened
               THEN Same([d EXCEPT !.pc = "done", !.emitted = @ + 1])
               ELSE Seeded(Twin_initialize_from_manual_annotation(
                               a, run.manual_boxes))
          [] d.pc = "seeded" ->
               Written([d EXCEPT !.pc = "test",
                                 !.saved_count = @ + 1,
                                 !.frame_index = run.start_frame + 1],
                       images \cup {name},
                       IF AnnotationGenerator_writes(a.result)
                       THEN WriteFile(labels, name,
                                AnnotationLines(a.result, image_shape[2],
                                                image_shape[1]))
                       ELSE labels,
                       IF AnnotationGenerator_writes(a.result)
                       THEN label_writes + 1 ELSE label_writes,
                       exported)
          [] d.pc = "test" ->
               Same([d EXCEPT !.pc =
                       IF WorkerContinues(d.frame_index, run.total_frames,
                                          d.should_stop)
                       THEN "frame" ELSE "export"])
          [] d.pc = "frame" ->
               IF ~env.ret THEN Same([d EXCEPT !.pc = "export"])
               ELSE Processed(Twin_process_frame(a, env.outcome,
                                                 WorkerConfidence))
          [] d.pc = "processed" ->
               Written([d EXCEPT !.pc = "test",
                                 !.saved_count = IF save THEN @ + 1 ELSE @,
                                 !.frame_index = @ + 1],
                       IF save THEN images \cup {name} ELSE images,
                       labels, label_writes, exported)
          [] d.pc = "export" ->
               IF env.written
               THEN Written([d EXCEPT !.pc = "report"], images, labels,
                            label_writes,
                            [written |-> TRUE,
                             records |-> ExportRecords(d.tracking_history)])
               ELSE Same([d EXCEPT !.pc = "except"])
          [] d.pc \in {"report", "except"} ->
               Same([d EXCEPT !.pc = "done", !.emitted = @ + 1])

\* what the surroundings may do in a step of these sessions
InterfaceSteps ==
    {StepOf(opened, ret, DetectorYields(<<DetSame>>), io, written) :
        opened \in BOOLEAN, ret \in BOOLEAN,
        io \in {IOAllOk, IOOutcome("ok", "raise")}, written \in BOOLEAN}

InitInterface ==
    /\ VideoAutoAnnotator_init(WorkerConfidence, TrackerHighIoU,
                               TrackerLowIoU, WorkerMaxDisappeared)
    /\ twin = Twin_init(TrackerHighIoU, TrackerLowIoU, WorkerMaxDisappeared)
    /\ worker_pc = "none"
    /\ should_stop = FALSE
    /\ frame_index = 0
    /\ saved_count = 0
    /\ finished = <<>>
    /\ exported = NoExport
    /\ stats_ready = NoStats
    /\ VideoTrackingInterface_init

\* the user clicks the button while it starts a run
ClickStart ==
    /\ interface.alive
    /\ interface.auto_track_btn = "start_auto_tracking"
    /\ interface.starts < MaxStarts
    /\ VideoTrackingInterface_start_auto_tracking

\* the user clicks the button while it stops the run
ClickStop ==
    /\ interface.alive
    /\ interface.auto_track_btn = "stop_auto_tracking"
    /\ VideoTrackingInterface_stop_auto_tracking

\* the event loop delivers a tracking_finished signal
DeliverFinished ==
    /\ interface.alive
    /\ PendingFinished > 0
    /\ VideoTrackingInterface_on_tracking_finished

\* a step of the worker the interface refers to
RunBegin ==
    /\ interface.alive
    /\ \E opened \in BOOLEAN :
          VideoTrackingWorker_run_begin(opened, <<SeedCup>>)
    /\ UNCHANGED iface_vars

RunSaveFirst ==
    /\ interface.alive
    /\ VideoTrackingWorker_run_save_first(0)
    /\ UNCHANGED iface_vars

RunTest ==
    /\ interface.alive
    /\ VideoTrackingWorker_run_test(InterfaceTotalFrames)
    /\ UNCHANGED iface_vars

RunFrame ==
    /\ interface.alive
    /\ \E env \in InterfaceSteps :
          VideoTrackingWorker_run_frame(env.ret, env.outcome, env.io, 0,
                                        WorkerFrameInterval)
    /\ UNCHANGED iface_vars

RunFrameEnd ==
    /\ interface.alive
    /\ VideoTrackingWorker_run_frame_end(0, WorkerFrameInterval)
    /\ UNCHANGED iface_vars

RunExport ==
    /\ interface.alive
    /\ \E written \in BOOLEAN : VideoTrackingWorker_run_export(written)
    /\ UNCHANGED iface_vars

RunReport ==
    /\ interface.alive
    /\ VideoTrackingWorker_run_report
    /\ UNCHANGED iface_vars

RunExcept ==
    /\ interface.alive
    /\ VideoTrackingWorker_run_except
    /\ UNCHANGED iface_vars

\* a step of a worker the interface has dropped.  When its run() returns
\* the last reference to the thread object goes, and the object is
\* destroyed while the thread is winding up: the process goes on or is
\* aborted by Qt.
DetachedStep ==
    /\ interface.alive
    /\ \E i \in DOMAIN detached, env \in InterfaceSteps :
          /\ detached[i].pc # "done"
          /\ LET Apply(r) ==
                   /\ detached' = [detached EXCEPT ![i] = r.worker]
                   /\ images' = r.images
                   /\ labels' = r.labels
                   /\ label_writes' = r.label_writes
                   /\ exported' = r.exported
                   /\ interface' \in
                        IF r.worker.pc = "done"
                        THEN {interface, [interface EXCEPT !.alive = FALSE]}
                        ELSE {interface}
             IN  Apply(Detached_run(
                           detached[i],
                           RunOf(InterfaceTotalFrames, 0,
                                 WorkerFrameInterval, <<SeedCup>>),
                           env))
    /\ UNCHANGED <<is_initialized, frame_count, tracking_history, statistics,
                   config_vars, target_track, is_tracking, kalman_filter,
                   call, result, exception, log, calls, twin, worker_pc,
                   should_stop, frame_index, saved_count, finished,
                   stats_ready>>

NextInterface ==
    \/ ClickStart \/ ClickStop \/ DeliverFinished
    \/ RunBegin \/ RunSaveFirst \/ RunTest \/ RunFrame \/ RunFrameEnd
    \/ RunExport \/ RunReport \/ RunExcept
    \/ DetachedStep

SpecInterface == InitInterface /\ [][NextInterface]_vars

\* ------------------------------------------------- the filter on its own
\* number of calls made on one KalmanFilter
MaxFilterCalls == 6

\* the boxes the filter is initialized and corrected with: the seed box
\* and a narrower one
FilterBoxes == {DetBBox(DetSame), DetBBox(DetEdge)}

\* what these sessions leave alone
filter_rest_vars ==
    <<is_initialized, frame_count, tracking_history, statistics,
      config_vars, target_track, is_tracking, fs_vars, result, exception,
      log, side_vars>>

KalmanInitialize ==
    /\ calls < MaxFilterCalls
    /\ \E bbox \in FilterBoxes :
          /\ kalman_filter' = KalmanFilter_initialize(kalman_filter, bbox)
          /\ call' = [op |-> "KalmanFilter.initialize", bbox |-> bbox]
    /\ calls' = calls + 1
    /\ UNCHANGED filter_rest_vars

KalmanPredict ==
    /\ calls < MaxFilterCalls
    /\ kalman_filter' = KalmanFilter_predict(kalman_filter)
    /\ call' = [op |-> "KalmanFilter.predict"]
    /\ calls' = calls + 1
    /\ UNCHANGED filter_rest_vars

KalmanUpdate ==
    /\ calls < MaxFilterCalls
    /\ \E bbox \in FilterBoxes :
          /\ kalman_filter' = KalmanFilter_update(kalman_filter, bbox)
          /\ call' = [op |-> "KalmanFilter.update", bbox |-> bbox]
    /\ calls' = calls + 1
    /\ UNCHANGED filter_rest_vars

NextKalman == KalmanInitialize \/ KalmanPredict \/ KalmanUpdate

SpecKalman == Init /\ [][NextKalman]_vars

\* ================================================================== claims
ProcessFrameStep == calls' = calls + 1 /\ call'.op = "process_frame"

SeedStep ==
    calls' = calls + 1 /\ call'.op = "initialize_from_manual_annotation"

ResetStep == calls' = calls + 1 /\ call'.op = "reset_tracker"

\* a seeded annotator whose track is alive
LiveTrack == is_initialized /\ is_tracking /\ target_track # NoTrack

\* a seeded annotator whose track was given up
Terminated == is_initialized /\ ~is_tracking

MatchSources ==
    {"high_conf_same_class", "high_conf_diff_class", "low_conf_same_class",
     "recovery_match"}

\* the frame's printout reports an accepted detection
Matched(printed) == printed \cap MatchSources # {}

ResultBBox(tb) == <<tb.x1, tb.y1, tb.x2, tb.y2>>

\* C1: a no-match frame that takes disappeared past max_disappeared ends
\* the track (is_tracking false, nothing returned), and from then on every
\* process_frame, whatever the detector reports, leaves is_tracking false
\* and returns the empty list without an exception.
C1_TerminationIsPermanent ==
    [][ProcessFrameStep =>
         /\ (LiveTrack /\ target_track.disappeared >= max_disappeared
               /\ ~Matched(log'))
            => (~is_tracking' /\ result' = <<>> /\ exception' = "none")
         /\ Terminated
            => (~is_tracking' /\ target_track' = NoTrack
                /\ result' = <<>> /\ exception' = "none")]_vars

\* a frame with a detection on offer was processed after the track had
\* ended on an earlier frame
C1_Witness ==
    /\ Terminated
    /\ call.op = "process_frame"
    /\ call.detector.dets # <<>>
    /\ statistics.lost_tracks >= 2
    /\ result = <<>>

\* C2: a frame processed on a live track sets disappeared to 0 when a
\* detection was accepted (any tier) and otherwise to its previous value
\* plus 1 (the track being dropped when that exceeds max_disappeared);
\* apart from that the counter only starts at 0 with a seeded track and
\* goes away with the track on a reset.
C2_DisappearedAccounting ==
    [][/\ (ProcessFrameStep /\ LiveTrack)
          => IF Matched(log')
             THEN target_track' # NoTrack /\ target_track'.disappeared = 0
             ELSE IF target_track' = NoTrack
                  THEN target_track.disappeared + 1 > max_disappeared
                  ELSE /\ target_track'.disappeared
                            = target_track.disappeared + 1
                       /\ target_track'.disappeared <= max_disappeared
       /\ (ProcessFrameStep /\ ~LiveTrack) => target_track' = target_track
       /\ SeedStep
          => IF call'.manual_boxes = <<>> THEN target_track' = target_track
             ELSE target_track'.disappeared = 0
       /\ ResetStep => target_track' = NoTrack
       /\ (ProcessFrameStep \/ SeedStep \/ ResetStep
           \/ target_track' = target_track)]_vars

\* a detection was accepted on the frame after two missed frames
C2_Witness ==
    /\ LiveTrack
    /\ call.op = "process_frame"
    /\ Matched(log)
    /\ target_track.disappeared = 0
    /\ \E i \in 1..(Len(tracking_history) - 2) :
          /\ tracking_history[i].confidence = 95
          /\ tracking_history[i + 1].confidence = 90
          /\ tracking_history[i + 1].frame_id
                = tracking_history[i].frame_id + 1

\* C3: a no-match frame that keeps the track returns exactly one box, at
\* the coordinates predict() gives on this frame, with confidence
\* max(0.1, c - 0.05 * d), d being disappeared after the increment and c
\* the track's confidence, which is 1.0 from the seed and the accepted
\* detection's confidence from a match, and which a no-match frame keeps.
C3_PredictedBoxOnNoMatch ==
    [][/\ (ProcessFrameStep /\ LiveTrack /\ ~Matched(log') /\ is_tracking')
          => LET kf1 == KalmanFilter_predict(kalman_filter)
                 d == target_track'.disappeared
             IN  /\ Len(result') = 1
                 /\ ResultBBox(result'[1]) = StateBBox(kf1.x)
                 /\ kalman_filter' = kf1
                 /\ d = target_track.disappeared + 1
                 /\ result'[1].confidence
                      = Max2(10, target_track.confidence - 5 * d)
                 /\ target_track'.confidence = target_track.confidence
       /\ (ProcessFrameStep /\ LiveTrack /\ Matched(log'))
          => /\ target_track'.confidence = result'[1].confidence
             /\ \E i \in 1..Len(call'.detector.dets) :
                   /\ call'.detector.dets[i].confidence
                        = target_track'.confidence
                   /\ DetBBox(call'.detector.dets[i]) = target_track'.box
       /\ (SeedStep /\ call'.manual_boxes # <<>>)
          => target_track'.confidence = 100]_vars

\* a predicted box was returned while the filter carries a velocity, so
\* the prediction differs from the last corrected position
C3_Witness ==
    /\ LiveTrack
    /\ call.op = "process_frame"
    /\ "occluded" \in log
    /\ kalman_filter.x[5] # 0
    /\ Len(result) = 1
    /\ result[1].confidence = 75
    /\ ResultBBox(result[1]) # target_track.box

\* C4: after an accepted match (or the seed) each of the next
\* max_disappeared consecutive no-match frames keeps is_tracking true and
\* returns one predicted box, and the track ends only when disappeared
\* exceeds max_disappeared.  In the end-to-end scenario with the default 30
\* (seed on frame 0, match on frame 1, nothing detected from frame 2 on):
\* frame 2 returns the seed box with confidence 0.85 and disappeared 1, the
\* track is alive up to frame 31, is_tracking is false once frame 32 is
\* processed, and frames 33, 34, ... return the empty list.
C4_TerminatesAfterMaxDisappeared ==
    /\ [][(ProcessFrameStep /\ LiveTrack /\ ~Matched(log'))
            => /\ target_track.disappeared < max_disappeared
                  => (is_tracking' /\ Len(result') = 1
                      /\ "occluded" \in log'
                      /\ target_track'.disappeared
                           = target_track.disappeared + 1)
               /\ ~is_tracking'
                  => (target_track.disappeared + 1 > max_disappeared
                      /\ result' = <<>>)]_vars
    /\ [](is_initialized
            => /\ frame_count <= max_disappeared + 2 => LiveTrack
               /\ frame_count >= max_disappeared + 3 => ~is_tracking
               /\ frame_count >= max_disappeared + 4 => result = <<>>
               /\ frame_count = 2
                  => (Len(result) = 1 /\ result[1].confidence = 90
                      /\ result[1].track_id = track_id
                      /\ target_track.disappeared = 0)
               /\ frame_count = 3
                  => (Len(result) = 1 /\ result[1].confidence = 85
                      /\ ResultBBox(result[1])
                           = <<Px(100), Px(100), Px(200), Px(200)>>
                      /\ target_track.disappeared = 1)
               /\ (frame_count >= 3 /\ frame_count <= max_disappeared + 2)
                  => (Len(result) = 1
                      /\ target_track.disappeared = frame_count - 2))

\* frame 35 of the scenario has been processed: the history holds the
\* seed, the match and the 30 predicted boxes of frames 2..31
C4_Witness ==
    /\ max_disappeared = default_max_disappeared
    /\ frame_count = E2EFrames
    /\ Terminated
    /\ result = <<>>
    /\ Len(tracking_history) = max_disappeared + 2
    /\ tracking_history[Len(tracking_history)].frame_id = max_disappeared + 1

\* C5: a process_frame that returns the empty list creates or overwrites
\* no label file and leaves saved_annotations (and saved_labels) as they
\* were, whatever save_annotation and frame_name are.
C5_NoAnnotationForEmptyResult ==
    [][(ProcessFrameStep /\ exception' = "none" /\ result' = <<>>)
         => /\ labels' = labels
            /\ label_writes' = label_writes
            /\ statistics'.saved_annotations = statistics.saved_annotations
            /\ statistics'.saved_labels = statistics.saved_labels]_vars

\* a seeded annotator returned the empty list for a frame it was asked to
\* annotate under the name of a label file that already exists
C5_Witness ==
    /\ is_initialized
    /\ call.op = "process_frame"
    /\ call.save_annotation
    /\ call.frame_name \in DOMAIN labels
    /\ exception = "none"
    /\ result = <<>>
    /\ "no_result_skip_annotation" \in log

\* C6 as stated: process_frame on an annotator that is not seeded (never
\* seeded, or reset and not seeded again) ends with an error.
C6_UninitializedFailsFast ==
    [][(ProcessFrameStep /\ ~is_initialized) => exception' # "none"]_vars

\* C6 as amended: process_frame on an annotator that is not seeded prints a
\* warning and returns the empty list without an exception, and changes
\* nothing: track, filter, frame counter, history, statistics and files
\* stay as they are and the annotator stays unseeded.
C6_UninitializedReturnsEmpty ==
    [][(ProcessFrameStep /\ ~is_initialized)
         => /\ exception' = "none"
            /\ result' = <<>>
            /\ "tracker_not_initialized" \in log'
            /\ ~is_initialized'
            /\ UNCHANGED <<target_track, is_tracking, kalman_filter,
                           frame_count, tracking_history, statistics,
                           labels, images, label_writes>>]_vars

\* process_frame was called after a reset that followed a seed
C6_Witness ==
    /\ ~is_initialized
    /\ call.op = "process_frame"
    /\ call.detector.dets # <<>>
    /\ "tracker_not_initialized" \in log
    /\ statistics.total_tracks = 1

\* C7: a frame on which the detector raises is a frame with zero
\* detections: no exception leaves process_frame, the error is reported,
\* track, filter and result are those of update() on the empty list (a
\* live track misses one frame: disappeared + 1 and the predicted box, or
\* the end of the track), no detection is counted, and the frame counter
\* advances so that the next frame is processed as usual.
C7_DetectorFailureIsZeroDetections ==
    [][(ProcessFrameStep /\ is_initialized /\ call'.detector.kind = "raise")
         => LET zero == SingleObjectTracker_update(tracker, <<>>, frame_count)
            IN  /\ exception' = "none"
                /\ "detect_error" \in log'
                /\ target_track' = zero.trk.target_track
                /\ is_tracking' = zero.trk.is_tracking
                /\ kalman_filter' = zero.trk.kalman_filter
                /\ result' = zero.results
                /\ statistics'.total_detections = statistics.total_detections
                /\ frame_count' = frame_count + 1
                /\ is_initialized'
                /\ LiveTrack
                   => IF target_track.disappeared + 1 > max_disappeared
                      THEN ~is_tracking' /\ result' = <<>>
                      ELSE /\ target_track'.disappeared
                                = target_track.disappeared + 1
                           /\ target_track'.state = "lost"
                           /\ Len(result') = 1
                           /\ ResultBBox(result'[1])
                                = StateBBox(KalmanFilter_predict(kalman_filter).x)
       ]_vars

\* the detector raised on a frame of a live track that had already missed
\* a frame
C7_Witness ==
    /\ LiveTrack
    /\ call.op = "process_frame"
    /\ call.detector.kind = "raise"
    /\ exception = "none"
    /\ target_track.disappeared = 2
    /\ Len(result) = 1

\* C8 as stated: when writing the label file or the image of a frame
\* raises an I/O error, process_frame still returns normally, the frame
\* counter advances, and the counter of the failed write is not
\* incremented.
C8_WriteFailureIsSkipped ==
    [][(ProcessFrameStep /\ is_initialized /\ call'.frame_name # NoName
          /\ \/ (call'.save_annotation /\ call'.io.label = "raise")
             \/ (call'.save_image /\ call'.io.image = "raise"))
         => /\ exception' = "none"
            /\ frame_count' = frame_count + 1
            /\ statistics'.total_frames = frame_count + 1
            /\ (call'.save_image /\ call'.io.image = "raise")
               => statistics'.saved_images = statistics.saved_images
            /\ (call'.save_annotation /\ call'.io.label = "raise")
               => statistics'.saved_annotations
                     = statistics.saved_annotations]_vars

\* C9 as stated: a seed call tracks the first box of positive width and
\* height, and seeds nothing when no box is valid.
C9_SeedsFirstValidBox ==
    [][SeedStep
         => LET valid == SelectSeq(call'.manual_boxes, IsValidBox)
            IN  IF valid = <<>>
                THEN target_track' = target_track
                     /\ is_initialized' = is_initialized
                ELSE /\ target_track' # NoTrack
                     /\ target_track'.box
                          = <<valid[1].x1, valid[1].y1,
                              valid[1].x2, valid[1].y2>>]_vars

\* C9 as amended: a seed call with a non-empty list tracks manual_boxes[0]
\* without looking at its geometry (a first box of zero or negative size is
\* seeded as it is, and no later box replaces it) and returns normally; it
\* seeds nothing, returning the empty list without an exception, only when
\* the list is empty.
C9_SeedsFirstBoxUnchecked ==
    [][SeedStep
         => /\ exception' = "none"
            /\ IF call'.manual_boxes = <<>>
               THEN /\ result' = <<>>
                    /\ UNCHANGED <<target_track, is_tracking, kalman_filter,
                                   is_initialized, frame_count>>
               ELSE LET b == call'.manual_boxes[1]
                    IN  /\ is_initialized' /\ is_tracking'
                        /\ target_track'.box = <<b.x1, b.y1, b.x2, b.y2>>
                        /\ Len(result') = 1
                        /\ ResultBBox(result'[1]) = <<b.x1, b.y1, b.x2, b.y2>>
                        /\ frame_count' = frame_count + 1]_vars

\* a zero-width first box was seeded although a valid box followed it
C9_Witness ==
    /\ call.op = "initialize_from_manual_annotation"
    /\ Len(call.manual_boxes) = 2
    /\ ~IsValidBox(call.manual_boxes[1])
    /\ IsValidBox(call.manual_boxes[2])
    /\ LiveTrack
    /\ target_track.box[3] <= target_track.box[1]

\* C10: a seed call with a non-empty list creates the one track from
\* manual_boxes[0] alone: the track's box, class_id and class_name, the
\* filter's state vector (centre, size, zero velocity) and the returned
\* TrackingBox are those of the first box; the covariance is not touched.
C10_OnlyFirstBoxHonoured ==
    [][(SeedStep /\ call'.manual_boxes # <<>>)
         => LET b == call'.manual_boxes[1]
                bbox == <<b.x1, b.y1, b.x2, b.y2>>
                tb == [track_id |-> 0, x1 |-> b.x1, y1 |-> b.y1,
                       x2 |-> b.x2, y2 |-> b.y2, confidence |-> 100,
                       class_id |-> b.class_id, class_name |-> b.class_name,
                       frame_id |-> frame_count]
            IN  /\ target_track'
                     = [box |-> bbox, class_id |-> b.class_id,
                        class_name |-> b.class_name, disappeared |-> 0,
                        confidence |-> 100, last_frame |-> frame_count,
                        state |-> "tracked"]
                /\ is_tracking' /\ is_initialized'
                /\ kalman_filter'.is_initialized
                /\ kalman_filter'.x
                     = <<(b.x1 + b.x2) \div 2, (b.y1 + b.y2) \div 2,
                         b.x2 - b.x1, b.y2 - b.y1, 0, 0, 0, 0>>
                /\ kalman_filter'.P = kalman_filter.P
                /\ result' = <<tb>>
                /\ tracking_history' = Append(tracking_history, tb)
                /\ statistics'.total_tracks = 1
                /\ statistics'.target_class = b.class_name]_vars

\* a list of two different valid boxes was seeded on a filter that had
\* already tracked another target
C10_Witness ==
    /\ call.op = "initialize_from_manual_annotation"
    /\ Len(call.manual_boxes) = 2
    /\ IsValidBox(call.manual_boxes[1])
    /\ LiveTrack
    /\ target_track.class_name = "bowl"
    /\ statistics.successful_tracks >= 1
    /\ frame_count >= 3

\* C11 as stated: once the track was given up, is_tracking becomes true
\* again only after reset_tracker(): no call made on the terminated
\* annotator, a seed call included, sets it.
C11_ResumeOnlyThroughReset ==
    [][Terminated => ~is_tracking']_vars

\* the track and the filter initialize_target builds from box b alone on
\* a new KalmanFilter, at frame 0
FreshTrack(b) ==
    [box |-> <<b.x1, b.y1, b.x2, b.y2>>, class_id |-> b.class_id,
     class_name |-> b.class_name, disappeared |-> 0, confidence |-> 100,
     last_frame |-> 0, state |-> "tracked"]

FreshFilter(b) ==
    [x |-> <<(b.x1 + b.x2) \div 2, (b.y1 + b.y2) \div 2,
             b.x2 - b.x1, b.y2 - b.y1, 0, 0, 0, 0>>,
     P |-> <<P_init, 0, 0, P_init>>,
     is_initialized |-> TRUE]

\* C12: reset_tracker() leaves the annotator uninitialized with no track,
\* is_tracking false, a new uninitialized Kalman filter, frame counter 0
\* and an empty history; the next seed then builds the track and the
\* filter (position and size of the seed box, zero velocity, the initial
\* covariance) from the new box alone, at frame 0.
C12_ResetThenSeedStartsAfresh ==
    [][/\ ResetStep
          => /\ ~is_initialized' /\ ~is_tracking'
             /\ target_track' = NoTrack
             /\ kalman_filter' = KalmanFilter_new
             /\ frame_count' = 0
             /\ tracking_history' = <<>>
       /\ (SeedStep /\ ~is_initialized /\ call'.manual_boxes # <<>>)
          => /\ is_initialized' /\ is_tracking'
             /\ target_track' = FreshTrack(call'.manual_boxes[1])
             /\ kalman_filter' = FreshFilter(call'.manual_boxes[1])
             /\ frame_count' = 1
             /\ Len(tracking_history') = 1
             /\ result' = tracking_history'
             /\ result'[1].frame_id = 0]_vars

\* a bowl was seeded right after a reset that ended a session in which
\* the cup had been tracked through at least one frame
C12_Witness ==
    /\ call.op = "initialize_from_manual_annotation"
    /\ LiveTrack
    /\ target_track.class_name = "bowl"
    /\ frame_count = 1
    /\ statistics.successful_tracks >= 1
    /\ kalman_filter.P = <<P_init, 0, 0, P_init>>

\* C13 as stated: the annotator that saves (any flags, any write
\* outcome) and the annotator that never saves, fed the same seed and the
\* same detections, have after every call the same track, is_tracking,
\* Kalman filter and frame counter, and every list a call returns
\* carries the frame_id the other run's list carries.
C13_StateIndependentOfWrites ==
    /\ twin.tracker = tracker
    /\ twin.frame_count = frame_count
    /\ twin.is_initialized = is_initialized
    /\ exception = "none" => result = twin.result

StopStep == ~should_stop /\ should_stop'

C15_SuccessRateWithinUnit ==
    /\ VideoAutoAnnotator_get_tracking_statistics.tracking_success_rate
         = IF statistics.total_frames = 0 THEN <<0, 1>>
           ELSE <<statistics.successful_tracks, statistics.total_frames>>
    /\ 0 <= VideoAutoAnnotator_get_tracking_statistics.tracking_success_rate[1]
    /\ VideoAutoAnnotator_get_tracking_statistics.tracking_success_rate[1]
         <= VideoAutoAnnotator_get_tracking_statistics.tracking_success_rate[2]
    /\ statistics.successful_tracks + statistics.lost_tracks
         <= statistics.total_frames

\* C16 as stated: the average_confidence of get_tracking_statistics is
\* 0 when no frame was counted in successful_tracks and otherwise a mean
\* of emitted confidences, so it lies between 0 and 1 (100 percent).
C16_AverageConfidenceWithinUnit ==
    /\ statistics.successful_tracks = 0
       => VideoAutoAnnotator_get_tracking_statistics.average_confidence
            = <<0, 1>>
    /\ 0 <= VideoAutoAnnotator_get_tracking_statistics.average_confidence[1]
    /\ VideoAutoAnnotator_get_tracking_statistics.average_confidence[1]
         <= 100 * VideoAutoAnnotator_get_tracking_statistics
                     .average_confidence[2]

\* C17 as stated: a seed call adds one record to the history, a
\* process_frame that returns adds the records of its result (none for
\* an empty result), and what export_tracking_results writes has one
\* track_id throughout and strictly increasing frame_ids.
C17_OneRecordPerResultFrame ==
    /\ [][/\ (SeedStep /\ call'.manual_boxes # <<>>)
             => (Len(result') = 1
                 /\ tracking_history' = tracking_history \o result')
          /\ (ProcessFrameStep /\ exception' = "none")
             => (Len(result') <= 1
                 /\ tracking_history' = tracking_history \o result')]_vars
    /\ [](\A i, j \in DOMAIN VideoAutoAnnotator_export_tracking_results :
            /\ VideoAutoAnnotator_export_tracking_results[i].track_id
                 = VideoAutoAnnotator_export_tracking_results[j].track_id
            /\ i < j
               => VideoAutoAnnotator_export_tracking_results[i].frame_id
                    < VideoAutoAnnotator_export_tracking_results[j].frame_id)

\* the box predict() gives for the frame about to be processed
PredictedBox == StateBBox(KalmanFilter_predict(kalman_filter).x)

\* IoU of detection d with that box
PredictedIoU(d) == calculate_iou(PredictedBox, DetBBox(d))

\* the detections update() is handed in the call just made
Handed(c) == YOLODetector_detect(c.detector, confidence_threshold).detections

\* d is of the target's class, has confidence >= 0.5 and an IoU above
\* high_iou_threshold
ClearsTier1(d) ==
    /\ d.confidence >= high_conf_threshold
    /\ d.class_id = target_track.class_id
    /\ IoUGreater(PredictedIoU(d), <<high_iou_threshold, 1000>>)

\* C18: when a frame of a live track holds a high-confidence same-class
\* detection whose IoU with the predicted box exceeds high_iou_threshold,
\* the frame is matched in the first tier and the detection accepted has
\* confidence >= 0.5, whatever low-confidence detections the frame holds.
C18_HighConfidenceTierFirst ==
    [][(ProcessFrameStep /\ LiveTrack
          /\ \E i \in DOMAIN Handed(call') : ClearsTier1(Handed(call')[i]))
         => /\ log' \cap {"high_conf_same_class", "high_conf_diff_class"} # {}
            /\ log' \cap {"low_conf_same_class", "recovery_match"} = {}
            /\ \E i \in DOMAIN Handed(call') :
                  /\ Handed(call')[i].confidence >= high_conf_threshold
                  /\ target_track'.box = DetBBox(Handed(call')[i])
                  /\ target_track'.confidence
                       = Handed(call')[i].confidence]_vars

\* the first frame after the seed offered a low-confidence detection of
\* IoU 0.82 ahead of a high-confidence one of IoU 0.57, and the latter
\* was accepted
C18_Witness ==
    /\ call.op = "process_frame"
    /\ call.detector.dets = <<DetLow, DetShifted>>
    /\ frame_count = 2
    /\ log = {"high_conf_same_class"}
    /\ target_track.box = DetBBox(DetShifted)
    /\ target_track.confidence = 80

\* the IoU of d with the predicted box is exactly high_iou_threshold
AtHighThreshold(d) ==
    /\ ~FracGT(PredictedIoU(d)[1], PredictedIoU(d)[2],
               high_iou_threshold, 1000)
    /\ ~FracGT(high_iou_threshold, 1000,
               PredictedIoU(d)[1], PredictedIoU(d)[2])

\* ... is above high_iou_threshold
AboveHighThreshold(d) ==
    FracGT(PredictedIoU(d)[1], PredictedIoU(d)[2], high_iou_threshold, 1000)

\* the step just made accepted detection d
Accepted(d) ==
    /\ Matched(log')
    /\ target_track'.box = DetBBox(d)
    /\ target_track'.confidence = d.confidence

\* C19 as stated: whatever the state of the live track, a detection whose
\* IoU with the predicted box is exactly high_iou_threshold is not the
\* frame's match, and a frame with a high-confidence same-class detection
\* of strictly greater IoU is matched.
C19_ExactThresholdNeverMatches ==
    [][(ProcessFrameStep /\ LiveTrack)
         => \A i \in DOMAIN Handed(call') :
               /\ AtHighThreshold(Handed(call')[i])
                  => ~Accepted(Handed(call')[i])
               /\ (AboveHighThreshold(Handed(call')[i])
                     /\ Handed(call')[i].confidence >= high_conf_threshold
                     /\ Handed(call')[i].class_id = target_track.class_id)
                  => Matched(log')]_vars

\* C19: the first tier is strict.  A detection whose IoU with the
\* predicted box is exactly high_iou_threshold is never accepted by the
\* first tier; if it has high confidence it is not accepted at all while
\* the track is Tracked or has been Lost for 10 frames or more.  It is
\* accepted by the lower tiers, whose thresholds it exceeds: as a
\* low-confidence same-class detection by the second tier, and alone in
\* the frame of a track Lost for fewer than 10 frames by the recovery
\* tier.  A frame with a high-confidence same-class detection of
\* strictly greater IoU is matched in the first tier.
C19_FirstTierStrict ==
    [][(ProcessFrameStep /\ LiveTrack)
         => \A i \in DOMAIN Handed(call') :
               /\ (AtHighThreshold(Handed(call')[i])
                     /\ Accepted(Handed(call')[i]))
                  => /\ log' \cap {"high_conf_same_class",
                                   "high_conf_diff_class"} = {}
                     /\ Handed(call')[i].class_id = target_track.class_id
                     /\ \/ Handed(call')[i].confidence < high_conf_threshold
                        \/ /\ target_track.state = "lost"
                           /\ target_track.disappeared < recovery_window
               /\ (AtHighThreshold(Handed(call')[i])
                     /\ Len(Handed(call')) = 1
                     /\ Handed(call')[i].class_id = target_track.class_id
                     /\ Handed(call')[i].confidence >= low_conf_threshold
                     /\ \/ Handed(call')[i].confidence < high_conf_threshold
                        \/ /\ target_track.state = "lost"
                           /\ target_track.disappeared < recovery_window)
                  => /\ Accepted(Handed(call')[i])
                     /\ log' = IF Handed(call')[i].confidence
                                    < high_conf_threshold
                               THEN {"low_conf_same_class"}
                               ELSE {"recovery_match"}
               /\ (AboveHighThreshold(Handed(call')[i])
                     /\ Handed(call')[i].confidence >= high_conf_threshold
                     /\ Handed(call')[i].class_id = target_track.class_id)
                  => log' \cap {"high_conf_same_class",
                                "high_conf_diff_class"} # {}]_vars

\* a high-confidence detection of IoU exactly 0.3 was refused on the
\* frame after the seed
C19_Witness ==
    /\ call.op = "process_frame"
    /\ call.detector.dets = <<DetEdge>>
    /\ frame_count = 2
    /\ log = {"occluded"}
    /\ target_track.state = "lost"
    /\ target_track.box = DetBBox(DetSame)

\* C20 as stated: a frame is matched to a different-class detection in
\* the first tier only if none of its high-confidence same-class
\* detections has an IoU above high_iou_threshold, and the detection
\* accepted has an IoU above 1.2 x high_iou_threshold, in whatever order
\* the detector lists the frame's detections.
C20_DiffClassOnlyWithoutSameClass ==
    [][(ProcessFrameStep /\ LiveTrack /\ "high_conf_diff_class" \in log')
         => /\ \A i \in DOMAIN Handed(call') : ~ClearsTier1(Handed(call')[i])
            /\ \E i \in DOMAIN Handed(call') :
                  /\ Accepted(Handed(call')[i])
                  /\ Handed(call')[i].class_id # target_track.class_id
                  /\ Handed(call')[i].confidence >= high_conf_threshold
                  /\ FracGT(PredictedIoU(Handed(call')[i])[1],
                            PredictedIoU(Handed(call')[i])[2],
                            high_iou_threshold * 12, 10000)]_vars

\* the detections of dets (by index) that tier k of update() may accept on
\* the frame about to be processed: 1 high confidence (same class above
\* high_iou_threshold, other class above 1.2 times it), 2 low confidence
\* same class above low_iou_threshold, 3 the recovery tier
TierCandidates(k, dets) ==
    {i \in DOMAIN dets :
       IF k = 1
       THEN /\ dets[i].confidence >= 50
            /\ IF dets[i].class_id = target_track.class_id
               THEN FracGT(PredictedIoU(dets[i])[1], PredictedIoU(dets[i])[2],
                           high_iou_threshold, 1000)
               ELSE FracGT(PredictedIoU(dets[i])[1], PredictedIoU(dets[i])[2],
                           high_iou_threshold * 12, 10000)
       ELSE IF k = 2
       THEN /\ dets[i].confidence >= 25
            /\ dets[i].confidence < 50
            /\ dets[i].class_id = target_track.class_id
            /\ FracGT(PredictedIoU(dets[i])[1], PredictedIoU(dets[i])[2],
                      low_iou_threshold, 1000)
       ELSE /\ target_track.state = "lost"
            /\ target_track.disappeared < 10
            /\ dets[i].confidence >= 25
            /\ dets[i].class_id = target_track.class_id
            /\ FracGT(PredictedIoU(dets[i])[1], PredictedIoU(dets[i])[2],
                      Max2(1000, low_iou_threshold * 7), 10000)}

\* the first tier with a candidate, 0 if there is none
FirstTier(dets) ==
    IF TierCandidates(1, dets) # {} THEN 1
    ELSE IF TierCandidates(2, dets) # {} THEN 2
    ELSE IF TierCandidates(3, dets) # {} THEN 3
    ELSE 0

\* among the candidates cands, the earliest of those with the largest IoU
BestCandidate(cands, dets) ==
    CHOOSE i \in cands :
       \A j \in cands :
          /\ ~FracGT(PredictedIoU(dets[j])[1], PredictedIoU(dets[j])[2],
                     PredictedIoU(dets[i])[1], PredictedIoU(dets[i])[2])
          /\ (j < i) => FracGT(PredictedIoU(dets[i])[1],
                               PredictedIoU(dets[i])[2],
                               PredictedIoU(dets[j])[1],
                               PredictedIoU(dets[j])[2])

\* C21 as stated: the detection accepted on a frame is, among the
\* candidates of the first tier that has any (different-class candidates
\* of the first tier included), the one of maximum IoU with the predicted
\* box, the earliest in the detector's list among those of equal IoU.
C21_MaxIoUWithinFirstTier ==
    [][(ProcessFrameStep /\ LiveTrack /\ Matched(log'))
         => /\ FirstTier(Handed(call')) # 0
            /\ Accepted(Handed(call')[
                   BestCandidate(TierCandidates(FirstTier(Handed(call')),
                                                Handed(call')),
                                 Handed(call'))])]_vars

\* d is of the target's class, has confidence >= 0.25 and an IoU with the
\* predicted box above max(0.1, 0.7 x low_iou_threshold)
ClearsRelaxedBar(d) ==
    /\ d.confidence >= 25
    /\ d.class_id = target_track.class_id
    /\ FracGT(PredictedIoU(d)[1], PredictedIoU(d)[2],
              Max2(1000, low_iou_threshold * 7), 10000)

\* C22: a frame is matched through the recovery tier only when the first
\* two tiers had no candidate and the track entered the frame Lost with
\* disappeared < 10, and the detection accepted is then of the target's
\* class with confidence >= 0.25 and an IoU above
\* max(0.1, 0.7 x low_iou_threshold); a track that enters the frame
\* Tracked, or with disappeared >= 10, is never matched to a detection
\* that clears the relaxed bar only.
C22_RecoveryOnlyWhileRecentlyLost ==
    [][(ProcessFrameStep /\ LiveTrack)
         => /\ "recovery_match" \in log'
               => /\ TierCandidates(1, Handed(call')) = {}
                  /\ TierCandidates(2, Handed(call')) = {}
                  /\ target_track.state = "lost"
                  /\ target_track.disappeared >= 1
                  /\ target_track.disappeared < 10
                  /\ log' = {"recovery_match"}
                  /\ \E i \in DOMAIN Handed(call') :
                        /\ Accepted(Handed(call')[i])
                        /\ ClearsRelaxedBar(Handed(call')[i])
            /\ (target_track.state = "tracked"
                  \/ target_track.disappeared >= 10)
               => /\ "recovery_match" \notin log'
                  /\ \A i \in DOMAIN Handed(call') :
                        (/\ ClearsRelaxedBar(Handed(call')[i])
                         /\ i \notin TierCandidates(1, Handed(call'))
                         /\ i \notin TierCandidates(2, Handed(call')))
                        => ~Accepted(Handed(call')[i])]_vars

\* after nine frames without a detection, a low-confidence detection of
\* IoU 0.12 was accepted by the recovery tier
C22_Witness ==
    /\ call.op = "process_frame"
    /\ call.detector.dets = <<DetFaint>>
    /\ frame_count = 11
    /\ log = {"recovery_match"}
    /\ target_track.state = "tracked"
    /\ target_track.disappeared = 0
    /\ target_track.confidence = 40

\* C23: a frame is matched through the second tier only when the first
\* tier had no candidate, and the detection accepted then has a confidence
\* in [0.25, 0.5), the target's class and an IoU with the predicted box
\* above low_iou_threshold; a detection of confidence below 0.25 is never
\* the frame's match.
C23_LowConfidenceTier ==
    [][(ProcessFrameStep /\ LiveTrack)
         => /\ "low_conf_same_class" \in log'
               => /\ TierCandidates(1, Handed(call')) = {}
                  /\ log' = {"low_conf_same_class"}
                  /\ \E i \in DOMAIN Handed(call') :
                        /\ Accepted(Handed(call')[i])
                        /\ Handed(call')[i].confidence >= 25
                        /\ Handed(call')[i].confidence < 50
                        /\ Handed(call')[i].class_id = target_track.class_id
                        /\ FracGT(PredictedIoU(Handed(call')[i])[1],
                                  PredictedIoU(Handed(call')[i])[2],
                                  low_iou_threshold, 1000)
            /\ \A i \in DOMAIN Handed(call') :
                  Handed(call')[i].confidence < 25
                  => ~Accepted(Handed(call')[i])
            /\ Matched(log') => target_track'.confidence >= 25]_vars

\* update() was handed a detection of confidence 0.2 on the seed box ahead
\* of a low-confidence one of IoU 0.30, and accepted the latter in the
\* second tier
C23_Witness ==
    /\ call.op = "process_frame"
    /\ Handed(call) = <<DetDim, DetEdgeLow>>
    /\ log = {"low_conf_same_class"}
    /\ target_track.box = DetBBox(DetEdgeLow)
    /\ target_track.confidence = 40

\* C24: a process_frame on a live track runs predict() once, before the
\* matching and before update(): the candidates are measured against the
\* predicted box, a no-match frame leaves the filter as predict() leaves
\* it, and a frame with an accepted detection leaves it as one update()
\* with that detection's box after that predict() leaves it.  The filter
\* of a live track has been initialized from a seed, and a process_frame
\* without a live track (before the seed, after a reset, after the track
\* was given up) does not touch the filter.  Seeding and resetting do
\* not predict.
C24_PredictThenCorrect ==
    /\ [](target_track # NoTrack => kalman_filter.is_initialized)
    /\ [][/\ (ProcessFrameStep /\ LiveTrack /\ Matched(log'))
             => /\ FirstTier(Handed(call')) # 0
                /\ \E i \in TierCandidates(FirstTier(Handed(call')),
                                           Handed(call')) :
                      /\ Accepted(Handed(call')[i])
                      /\ kalman_filter'
                           = KalmanFilter_update(
                                 KalmanFilter_predict(kalman_filter),
                                 DetBBox(Handed(call')[i]))
                      /\ ResultBBox(result'[1]) = StateBBox(kalman_filter'.x)
          /\ (ProcessFrameStep /\ LiveTrack /\ ~Matched(log'))
             => /\ FirstTier(Handed(call')) = 0
                /\ kalman_filter' = KalmanFilter_predict(kalman_filter)
                /\ kalman_filter' # kalman_filter
          /\ (ProcessFrameStep /\ ~LiveTrack)
             => kalman_filter' = kalman_filter
          /\ SeedStep
             => \/ kalman_filter' = kalman_filter
                \/ /\ kalman_filter'.is_initialized
                   /\ kalman_filter'.P = kalman_filter.P
                   /\ StateBBox(kalman_filter'.x) = target_track'.box
          /\ ResetStep => kalman_filter' = KalmanFilter_new]_vars

\* a detection was accepted on a frame on which the predicted box had
\* moved away from the box of the frame before
C24_Witness ==
    /\ call.op = "process_frame"
    /\ Matched(log)
    /\ LiveTrack
    /\ frame_count >= 3
    /\ kalman_filter.x[5] # 0
    /\ kalman_filter.P[1] < P_init
    /\ \E i \in 1..(Len(tracking_history) - 1) :
          /\ tracking_history[i].frame_id + 1 = frame_count - 1
          /\ tracking_history[i + 1].frame_id = frame_count - 1
          /\ tracking_history[i].confidence = 80

\* C25: between calls, a track that exists is Tracked exactly when
\* disappeared = 0 and Lost exactly when 1 <= disappeared <=
\* max_disappeared.  A frame with an accepted detection leaves it Tracked,
\* a frame without one leaves it Lost or gives it up, and a track is given
\* up only by a frame without an accepted detection (or removed by a
\* reset); a track is created, Tracked, only by a seed.
C25_StateFollowsDisappeared ==
    /\ [](target_track # NoTrack
            => /\ target_track.state \in {"tracked", "lost"}
               /\ target_track.state = "tracked"
                    <=> target_track.disappeared = 0
               /\ target_track.state = "lost"
                    <=> (1 <= target_track.disappeared
                         /\ target_track.disappeared <= max_disappeared))
    /\ [][/\ (ProcessFrameStep /\ LiveTrack /\ Matched(log'))
             => (target_track' # NoTrack
                 /\ target_track'.state = "tracked")
          /\ (ProcessFrameStep /\ LiveTrack /\ ~Matched(log'))
             => IF target_track.disappeared + 1 > max_disappeared
                THEN target_track' = NoTrack /\ ~is_tracking'
                ELSE target_track' # NoTrack
                     /\ target_track'.state = "lost"
          /\ (target_track # NoTrack /\ target_track' = NoTrack)
             => \/ ResetStep
                \/ (ProcessFrameStep /\ ~Matched(log'))
          /\ (target_track # NoTrack /\ target_track' # NoTrack
                /\ target_track'.state # target_track.state)
             => (ProcessFrameStep \/ SeedStep)
          /\ (target_track = NoTrack /\ target_track' # NoTrack)
             => (SeedStep /\ target_track'.state = "tracked")]_vars

\* a track that missed max_disappeared frames in a row is still alive,
\* Lost
C25_Witness ==
    /\ LiveTrack
    /\ call.op = "process_frame"
    /\ target_track.state = "lost"
    /\ target_track.disappeared = max_disappeared
    /\ Len(result) = 1

\* C26 as stated: every initialize(bbox), the one of a second seed on a
\* filter that has predicted or been corrected included, leaves the state
\* at the centre and size of bbox with zero velocity and P = 1000 x I.
C26_InitializeResetsCovariance ==
    [][(SeedStep /\ call'.manual_boxes # <<>>)
         => /\ kalman_filter'.is_initialized
            /\ kalman_filter'.x
                 = <<(call'.manual_boxes[1].x1 + call'.manual_boxes[1].x2)
                        \div 2,
                     (call'.manual_boxes[1].y1 + call'.manual_boxes[1].y2)
                        \div 2,
                     call'.manual_boxes[1].x2 - call'.manual_boxes[1].x1,
                     call'.manual_boxes[1].y2 - call'.manual_boxes[1].y1,
                     0, 0, 0, 0>>
            /\ kalman_filter'.P = <<1000000, 0, 0, 1000000>>]_vars

\* C27: a predict() on an initialized filter, whatever calls of
\* initialize, predict and update came before, leaves the position block
\* of P (its four position-diagonal entries) no smaller than it was and
\* moves centre and size by the velocity, which it keeps; predict() on a
\* filter never initialized changes nothing.
C27_PredictNeverShrinksPositionVariance ==
    [][(calls' = calls + 1 /\ call'.op = "KalmanFilter.predict")
         => IF kalman_filter.is_initialized
            THEN /\ kalman_filter'.P[1] >= kalman_filter.P[1]
                 /\ \A i \in 1..4 :
                       /\ kalman_filter'.x[i]
                            = kalman_filter.x[i] + kalman_filter.x[i + 4]
                       /\ kalman_filter'.x[i + 4] = kalman_filter.x[i + 4]
            ELSE kalman_filter' = kalman_filter]_vars

\* a second predict() in a row on a filter that an update() had given a
\* velocity and a covariance below the initial one
C27_Witness ==
    /\ call.op = "KalmanFilter.predict"
    /\ kalman_filter.is_initialized
    /\ kalman_filter.x[7] < 0
    /\ kalman_filter.P[1] < P_init
    /\ kalman_filter.P[1] > 4 * (Q_pos + Q_vel)
    /\ kalman_filter.P[2] > kalman_filter.P[4]

\* C28: the box returned by a no-match frame has a confidence below that
\* of the track, which is 1.0 from the seed and the accepted detection's
\* confidence from the most recent match and which no-match frames leave
\* alone; it is never below 0.1, and it is not above the confidence
\* returned by the frame before when that was a no-match frame too.
C28_PredictedConfidenceDecays ==
    [][/\ (ProcessFrameStep /\ LiveTrack /\ ~Matched(log')
             /\ result' # <<>>)
          => /\ result'[1].confidence < target_track.confidence
             /\ result'[1].confidence >= 10
             /\ target_track'.confidence = target_track.confidence
             /\ (call.op = "process_frame" /\ "occluded" \in log
                   /\ result # <<>>)
                => result'[1].confidence <= result[1].confidence
       /\ (ProcessFrameStep /\ LiveTrack /\ Matched(log'))
          => /\ target_track'.confidence = result'[1].confidence
             /\ \E i \in DOMAIN Handed(call') :
                   /\ Handed(call')[i].confidence = result'[1].confidence
                   /\ target_track'.box = DetBBox(Handed(call')[i])
       /\ (SeedStep /\ call'.manual_boxes # <<>>)
          => target_track'.confidence = 100]_vars

\* the 20th no-match frame in a row after a match of confidence 0.9
\* returned a box of confidence 0.1, as the frame before it had
C28_Witness ==
    /\ call.op = "process_frame"
    /\ LiveTrack
    /\ log = {"occluded"}
    /\ target_track.disappeared = 20
    /\ target_track.confidence = 90
    /\ result[1].confidence = 10
    /\ tracking_history[Len(tracking_history) - 1].confidence = 10
    /\ tracking_history[Len(tracking_history) - 5].confidence = 15

\* x1 < x2 and y1 < y2
WellFormed(b) == b.x1 < b.x2 /\ b.y1 < b.y2

\* C29 as stated: in a session whose seed box and detections are all
\* well-formed (every session of SpecMatch is one), every box returned by
\* process_frame, corrected on a match or extrapolated on a no-match
\* frame, is well-formed.
C29_EmittedBoxesWellFormed ==
    [][(ProcessFrameStep
          /\ WellFormed(tracking_history[1])
          /\ \A i \in DOMAIN call'.detector.dets :
                WellFormed(call'.detector.dets[i]))
         => \A i \in DOMAIN result' : WellFormed(result'[i])]_vars

\* a worker whose run() has begun or is about to and has not returned
RunningWorkers ==
    (IF worker_pc \notin {"none", "done"} THEN {0} ELSE {})
    \cup {i \in DOMAIN detached : detached[i].pc # "done"}

\* C30: at most one VideoTrackingWorker is running at any time: whatever the
\* order of start_auto_tracking, stop_auto_tracking and the workers' steps,
\* no worker is started while a worker started before has not finished its
\* run, so no two runs write to the same Auto_dataset directory at once.
C30_AtMostOneWorkerRunning == Cardinality(RunningWorkers) <= 1

=============================================================================
